---- MODULE Spec2Model ----
(***************************************************************************)
(* Model of the concurrent media pipeline of VisionFlowMonitoring:         *)
(*   - VideoRecorder   (core/recording.py): per-camera frame buffer and    *)
(*     event recording threads;                                            *)
(*   - EventDetector   (core/detection.py): debounced event emission;      *)
(*   - CameraStream    (core/camera.py): capture loop with reconnection,   *)
(*     its capture threads and the timing of its reconnection attempts;    *)
(*   - CameraManager   (core/camera.py): the registry of streams;          *)
(*   - ObjectDetector  (core/detection.py): one call of detect;            *)
(*   - RealtimeSession (api/realtime_detection.py): start, stop and the    *)
(*     configuration of a live session, its hand-off cells and the routes  *)
(*     that create and destroy sessions;                                   *)
(*   - EventManager    (core/recording.py): process_event and the rows it  *)
(*     saves;                                                              *)
(*   - the cameras of a manager feeding one recorder under their names.    *)
(* Each component has its own specification (SpecRec, SpecDet, SpecCam,    *)
(* SpecMgr, SpecObj, SpecSess, SpecCfg, SpecThreads, SpecBackoff, SpecEvt, *)
(* SpecHandoff, SpecRoutes, SpecNames, ...)                                *)
(* over the shared variable tuple; a component's specification leaves the  *)
(* variables of the other components at their initial values.              *)
(***************************************************************************)
EXTENDS Integers, Sequences, FiniteSets, TLC

(***************************************************************************)
(* Bounds of the model.                                                    *)
(***************************************************************************)
\* capacity of a camera's frame buffer (max_buffer_frames, a constructor value)
MaxBufferFrames == 2
\* valid frames offered to add_frame per camera
MaxAppend == 3
\* start_recording calls made in a run
MaxTriggers == 2
\* frames passed to EventDetector.process_frame in a run
MaxFrames == 2
\* frame timestamps range over 0..MaxTime (seconds)
MaxTime == 11
\* frames a CameraStream captures in a run
MaxCaptured == 2
\* consecutive failed reads are counted up to this number
MaxConsecFails == 6
\* error_count is counted up to this number (above both of its thresholds)
MaxErrorCount == 7
\* RealtimeSession.stop calls made on a session between two start() calls
MaxStops == 2
\* websockets attached to a session at a time
MaxWebsockets == 1
\* CameraStream objects constructed by a CameraManager
MaxObjects == 2
\* RealtimeSession.set_config calls made in a run
MaxConfigs == 2
\* capture threads created by the start() calls made on a CameraStream
MaxThreads == 2
\* elapsed times are counted up to this number of seconds
MaxElapsed == 16
\* reconnection attempts made by a capture loop in a run
MaxAttemptsMade == 8
\* EventManager.process_event calls made in a run
MaxEvents == 2
\* frames the capture loop of a live session retrieves in a run
MaxRetrieved == 3
\* start and stop requests made on the session routes in a run
MaxRequests == 3

Cameras == {"cam1", "cam2"}
\* threads that call VideoRecorder.start_recording
Callers == {"k1", "k2"}
\* the callbacks a stream can be given
CallbackIds == {"cb1", "cb2"}

VARIABLES
    \* ---- VideoRecorder ----
    frame_buffer,       \* dict camera -> list of frames (a frame is its arrival number)
    recording,          \* dict camera -> bool
    recording_threads,  \* dict camera -> the thread last started for it (its id)
    recThread,          \* the live _record_event threads: thread id -> its locals
    afPc,               \* per camera: position of the add_frame call in progress
    srPc,               \* per caller: position of the start_recording call in progress
    srCam,              \* per caller: camera_name of the event of the call in progress
    appended,           \* per camera: number of valid frames passed to add_frame
    calls,              \* start_recording calls begun
    dropped,            \* calls that returned at line 90 (recording in progress)
    started,            \* recording threads created (line 107)
    failedCams,         \* the cameras of the recording threads that ended in the
                        \* except branch (lines 199-200)
    \* ---- EventDetector ----
    last_event_time,    \* dict event_key -> timestamp of the key's last event
    det,                \* per evaluating thread: the locals of its process_frame call
    frames_seen,        \* the frames passed to process_frame, in call order
    emitted,            \* the events created by _check_events, in creation order
    \* ---- CameraStream ----
    cap,                \* self.cap: "none", "open", or "closed" (not opened / released)
    connected,          \* self.connected
    running,            \* self.running
    frame,              \* self.frame: the number of the last frame captured, 0 for None
    run,                \* the capture thread: its position and the locals of _run
    stopPc,             \* the position of the stop() call in progress
    consecFails,        \* reads that returned no frame in a row (counted up to MaxConsecFails)
    consecRaises,       \* reads that raised in a row (counted up to MaxConsecFails)
    phase,              \* "init"; "streaming" once a _connect opened the source and read
                        \* a first frame; "backoff" once the loop released the handle
    callbacks,          \* self.callbacks: the list of registered callbacks
    delivered,          \* per callback: the number of the last frame it was called with
    raised,             \* per callback: the number of the last frame on which it raised
    handed,             \* the calls made by _process_frame for the last frame read, in
                        \* call order: the callback and the content of the array it got
    attempt,            \* the result of the last _connect made since start() was called
                        \* and before stop() was: "none", "ok" or "failed"
    stopped,            \* a stop() call has returned and start() was not called since
    \* ---- RTSPCamera ----
    rtsp_cap,           \* self.cap: "none", "open", or "closed" (not opened / released)
    rtsp_running,       \* self.running
    rtsp_thread,        \* self.thread: "none" or "set"
    q,                  \* self.q: the number of frames in the queue (maxsize 1)
    loop,               \* the position of the capture thread in _loop, "none" when no
                        \* capture thread is alive
    sp,                 \* per caller of RTSPCamera.stop: the position of its call
    rtsp_releases,      \* release() calls made on the handle last created
    stopRaised,         \* per caller of RTSPCamera.stop: its last call raised
    \* ---- RealtimeSession ----
    active,             \* self.active
    infer_thread,       \* the position of the inference thread, "none" when not alive
    last_jpeg,          \* self.last_jpeg: 0 for None, 1 for an encoded frame
    websockets,         \* self.websockets: the number of entries
    sess,               \* the position of the RealtimeSession.stop call in progress
    sessStops,          \* RealtimeSession.stop calls that returned since start()
    start_raised,       \* the last RealtimeSession.start call ended with an exception
    \* ---- CameraManager ----
    cameras,            \* self.cameras: dict camera id -> CameraStream object
    created,            \* CameraStream objects constructed by add_camera
    mgr,                \* per caller: its add_camera or remove_camera call
    removed,            \* the objects whose remove_camera returned True
    balance,            \* per camera id: add_camera calls that returned True minus
                        \* remove_camera calls that returned True
    \* ---- ObjectDetector ----
    model,              \* self.model: "none" or "loaded"
    detect_call,        \* the last detect call: the path it took, its arguments,
                        \* what it returned and whether it raised
    \* ---- RealtimeSession configuration ----
    sess_classes,       \* RealtimeSession.classes: a set of class names, {} for
                        \* None and for the empty list
    sess_conf,          \* RealtimeSession.conf, in percent
    yolo_conf,          \* YoloDetector.conf, in percent
    setc,               \* the set_config call in progress: its position and arguments
    inf,                \* the inference of a frame: its position, the classes passed
                        \* to predict, the confidence read by predict, and the
                        \* configuration in force when it began
    annotated,          \* the boxes drawn on the frame published last
    configs,            \* set_config calls made
    \* ---- the capture threads of a CameraStream ----
    thr_running,        \* self.running
    thr_cap,            \* self.cap: "none", "open", or "closed"
    thr_thread,         \* self.thread: the thread created last, 0 for None
    thr,                \* per thread: its position in _run ("none" when it is not
                        \* alive) and the frame it read and has not yet delivered
    thr_stop,           \* the position of the stop() call in progress
    captured,           \* the frames read from the source so far
    received,           \* the frames the subscriber was called with, in call order
    \* ---- the timing of the reconnection attempts of a capture loop ----
    bo,                 \* the loop: streaming or in backoff, reconnect_attempts, and
                        \* the seconds elapsed since last_reconnect_time was set
    since_attempt,      \* the seconds elapsed since the loop last called _connect
    failed_row,         \* the attempts of the loop that failed in a row
    made,               \* the attempts the loop has made
    lastmade,           \* since_attempt (as gap) and failed_row as they were when
                        \* the last attempt began
    \* ---- EventManager ----
    db_session,         \* self.db_session is set
    pe,                 \* the process_event call in progress
    saved,              \* the Event rows committed through db_session, in order
    \* ---- the hand-off cells of a live session ----
    hq,                 \* RTSPCamera.q: the frames in the queue, oldest first
    hloop,              \* the capture thread: its position in _loop and its frame
    retrieved,          \* the frames retrieved from the source so far
    hinfer,             \* the inference thread: its position and its frame
    hreceived,          \* the frames camera.read returned, in order
    frame_lock,         \* RealtimeSession.frame_lock: "free" or its holder
    hjpeg,              \* RealtimeSession.last_jpeg: the frame it encodes and what
                        \* was drawn on it, NoJpeg for None
    published,          \* the JPEG stored last by the inference thread
    detector_raised,    \* the frames on which the detector raised
    turn_end,           \* per frame: how its turn of the inference loop ended
    viewer,             \* pump_ws: its position, the data it read and
                        \* the frame that was published last when it read
    \* ---- the session routes ----
    realtime_sessions,  \* the module's dict session key -> RealtimeSession object
    objs,               \* the RealtimeSession objects built so far: active, and the
                        \* state of the object's threads
    rq,                 \* per request thread: the position of its route handler
    requests,           \* requests begun
    answer,             \* per request thread: the route, the object and the status
                        \* of its last response
    \* ---- the cameras of a manager and the recorder they feed ----
    config_name,        \* per camera id: config.name of its stream, "none" when the
                        \* id is not registered
    name_buffer,        \* the recorder's frame_buffer: name -> the frames in it,
                        \* each frame being the id of the camera that captured it
    name_recording,     \* the recorder's recording flags: name -> bool
    job_of,             \* per name: the id of the camera whose trigger started the
                        \* recording in progress, "none" without one
    last_trigger        \* the last start_recording call: the camera id of its
                        \* event and how it ended

recVars == <<frame_buffer, recording, recording_threads, recThread, afPc, srPc,
             srCam, appended, calls, dropped, started, failedCams>>

detVars == <<last_event_time, det, frames_seen, emitted>>

\* the callbacks and what they received
cbVars == <<callbacks, delivered, raised, handed>>

camVars == <<cap, connected, running, frame, run, stopPc, consecFails, consecRaises, phase,
             cbVars, attempt, stopped>>

rtspVars == <<rtsp_cap, rtsp_running, rtsp_thread, q, loop, sp, rtsp_releases,
              stopRaised>>

sessionVars == <<active, infer_thread, last_jpeg, websockets, sess, sessStops,
                 start_raised>>

liveVars == <<rtspVars, sessionVars>>

mgrVars == <<cameras, created, mgr, removed, balance>>

objVars == <<model, detect_call>>

cfgVars == <<sess_classes, sess_conf, yolo_conf, setc, inf, annotated, configs>>

threadVars == <<thr_running, thr_cap, thr_thread, thr, thr_stop, captured, received>>

backoffVars == <<bo, since_attempt, failed_row, made, lastmade>>

evtVars == <<db_session, pe, saved>>

handVars == <<hq, hloop, retrieved, hinfer, hreceived, frame_lock, hjpeg, published,
              detector_raised, turn_end, viewer>>

routeVars == <<realtime_sessions, objs, rq, requests, answer>>

nameVars == <<config_name, name_buffer, name_recording, job_of, last_trigger>>

vars == <<recVars, detVars, camVars, liveVars, mgrVars, objVars, cfgVars, threadVars,
          backoffVars, evtVars, handVars, routeVars, nameVars>>

\* the variables of the components other than the recorder, the detector, the camera
otherThanRec ==
    <<detVars, camVars, liveVars, mgrVars, objVars, cfgVars, threadVars,
      backoffVars, evtVars, handVars, routeVars, nameVars>>
otherThanDet ==
    <<recVars, camVars, liveVars, mgrVars, objVars, cfgVars, threadVars,
      backoffVars, evtVars, handVars, routeVars, nameVars>>
otherThanCam ==
    <<recVars, detVars, liveVars, mgrVars, objVars, cfgVars, threadVars,
      backoffVars, evtVars, handVars, routeVars, nameVars>>
otherThanSess ==
    <<recVars, detVars, camVars, mgrVars, objVars, cfgVars, threadVars,
      backoffVars, evtVars, handVars, routeVars, nameVars>>
otherThanMgr ==
    <<recVars, detVars, camVars, liveVars, objVars, cfgVars, threadVars,
      backoffVars, evtVars, handVars, routeVars, nameVars>>
otherThanObj ==
    <<recVars, detVars, camVars, liveVars, mgrVars, cfgVars, threadVars,
      backoffVars, evtVars, handVars, routeVars, nameVars>>
otherThanCfg ==
    <<recVars, detVars, camVars, liveVars, mgrVars, objVars, threadVars,
      backoffVars, evtVars, handVars, routeVars, nameVars>>
otherThanThreads ==
    <<recVars, detVars, camVars, liveVars, mgrVars, objVars, cfgVars,
      backoffVars, evtVars, handVars, routeVars, nameVars>>
\* the variables of the components other than the camera and the manager
otherThanCamMgr ==
    <<recVars, detVars, liveVars, objVars, cfgVars, threadVars, backoffVars,
      evtVars, handVars, routeVars, nameVars>>
otherThanBackoff ==
    <<recVars, detVars, camVars, liveVars, mgrVars, objVars, cfgVars, threadVars,
      evtVars, handVars, routeVars, nameVars>>
\* the variables other than those of the manager of events
otherThanEvt ==
    <<recVars, detVars, camVars, liveVars, mgrVars, objVars, cfgVars, threadVars,
      backoffVars, handVars, routeVars, nameVars>>
\* the variables other than those of the hand-off cells
otherThanHandoff ==
    <<recVars, detVars, camVars, liveVars, mgrVars, objVars, cfgVars, threadVars,
      backoffVars, evtVars, routeVars, nameVars>>
\* the variables other than those of the session routes
otherThanRoutes ==
    <<recVars, detVars, camVars, liveVars, mgrVars, objVars, cfgVars, threadVars,
      backoffVars, evtVars, handVars, nameVars>>
\* the variables other than those of the cameras feeding the recorder
otherThanNames ==
    <<recVars, detVars, camVars, liveVars, mgrVars, objVars, cfgVars, threadVars,
      backoffVars, evtVars, handVars, routeVars>>

(***************************************************************************)
(* Helpers.                                                                *)
(***************************************************************************)
Range(s) == {s[i] : i \in 1..Len(s)}

Min(a, b) == IF a < b THEN a ELSE b

\* the last n elements of s
LastN(s, n) == SubSeq(s, Len(s) - n + 1, Len(s))

\* d with key k set to v (dict assignment d[k] = v, inserting k when absent)
Put(d, k, v) == [x \in DOMAIN d \cup {k} |-> IF x = k THEN v ELSE d[x]]

\* d without key k
Drop(d, k) == [x \in DOMAIN d \ {k} |-> d[x]]

EmptyDict == [x \in {} |-> 0]

(***************************************************************************)
(* VideoRecorder.__init__                                                  *)
(***************************************************************************)
InitRec ==
    /\ frame_buffer = EmptyDict
    /\ recording = EmptyDict
    /\ recording_threads = EmptyDict
    /\ recThread = EmptyDict
    /\ afPc = [c \in Cameras |-> "idle"]
    /\ srPc = [k \in Callers |-> "idle"]
    /\ srCam = [k \in Callers |-> "none"]
    /\ appended = [c \in Cameras |-> 0]
    /\ calls = 0
    /\ dropped = 0
    /\ started = 0
    /\ failedCams = {}

(***************************************************************************)
(* VideoRecorder.add_frame, lines 57-72: an invalid frame returns at once; *)
(* a valid one creates the camera's buffer when absent and is appended.    *)
(* The frame is identified by its arrival number for the camera.           *)
(***************************************************************************)
add_frame_invalid(c) ==
    /\ afPc[c] = "idle"
    /\ UNCHANGED <<frame_buffer, recording, recording_threads, recThread, afPc,
                   srPc, srCam, appended, calls, dropped, started,
                   failedCams, otherThanRec>>

add_frame_append(c) ==
    /\ afPc[c] = "idle"
    /\ appended[c] < MaxAppend
    /\ LET n == appended[c] + 1
           old == IF c \in DOMAIN frame_buffer THEN frame_buffer[c] ELSE <<>>
       IN /\ frame_buffer' = Put(frame_buffer, c, Append(old, n))
          /\ appended' = [appended EXCEPT ![c] = n]
    /\ recording' = IF c \in DOMAIN frame_buffer THEN recording
                    ELSE Put(recording, c, FALSE)
    /\ afPc' = [afPc EXCEPT ![c] = "limit"]
    /\ UNCHANGED <<recording_threads, recThread, srPc, srCam, calls, dropped,
                   started,
                   failedCams, otherThanRec>>

\* the test of the while loop of line 75
OverCapacity(buf) == Len(buf) > MaxBufferFrames

\* a variant of line 76 that pops the newest entry, pop(), instead of the oldest
EvictNewest(buf) == SubSeq(buf, 1, Len(buf) - 1)

\* line 76: pop(0)
Evict(buf) == Tail(buf)

(***************************************************************************)
(* add_frame, lines 75-76: one iteration of the loop that limits the       *)
(* buffer, or the loop's exit.                                             *)
(***************************************************************************)
add_frame_limit(c) ==
    /\ afPc[c] = "limit"
    /\ IF OverCapacity(frame_buffer[c])
       THEN /\ frame_buffer' = [frame_buffer EXCEPT ![c] = Evict(@)]
            /\ UNCHANGED afPc
       ELSE /\ afPc' = [afPc EXCEPT ![c] = "idle"]
            /\ UNCHANGED frame_buffer
    /\ UNCHANGED <<recording, recording_threads, recThread, srPc, srCam, appended,
                   calls, dropped, started,
                   failedCams, otherThanRec>>

(***************************************************************************)
(* VideoRecorder.start_recording.  A caller thread enters the call with an *)
(* event of camera c; the tests of lines 88 and 93 and the writes of lines *)
(* 98-107 are separate steps: the method holds no lock.                    *)
(***************************************************************************)
start_recording_call(k, c) ==
    /\ srPc[k] = "idle"
    /\ calls < MaxTriggers
    /\ srPc' = [srPc EXCEPT ![k] = "l88"]
    /\ srCam' = [srCam EXCEPT ![k] = c]
    /\ calls' = calls + 1
    /\ UNCHANGED <<frame_buffer, recording, recording_threads, recThread, afPc,
                   appended, dropped, started,
                   failedCams, otherThanRec>>

\* line 88: camera_name in self.recording and self.recording[camera_name]
AlreadyRecording(c) == c \in DOMAIN recording /\ recording[c]

\* a variant of lines 88-90 that lets the call through whatever the flag says
start_recording_nocheck(k) ==
    /\ srPc[k] = "l88"
    /\ srPc' = [srPc EXCEPT ![k] = "l93"]
    /\ UNCHANGED <<frame_buffer, recording, recording_threads, recThread, afPc,
                   srCam, appended, calls, dropped, started,
                   failedCams, otherThanRec>>

\* lines 88-90: the call is dropped when a recording is in progress
start_recording_check(k) ==
    /\ srPc[k] = "l88"
    /\ IF AlreadyRecording(srCam[k])
       THEN /\ srPc' = [srPc EXCEPT ![k] = "idle"]
            /\ srCam' = [srCam EXCEPT ![k] = "none"]
            /\ dropped' = dropped + 1
       ELSE /\ srPc' = [srPc EXCEPT ![k] = "l93"]
            /\ UNCHANGED <<srCam, dropped>>
    /\ UNCHANGED <<frame_buffer, recording, recording_threads, recThread, afPc,
                   appended, calls, started,
                   failedCams, otherThanRec>>

\* line 93: camera_name not in self.frame_buffer or not self.frame_buffer[camera_name]
NoFrames(c) == c \notin DOMAIN frame_buffer \/ frame_buffer[c] = <<>>

\* lines 93-95
start_recording_buffer(k) ==
    /\ srPc[k] = "l93"
    /\ IF NoFrames(srCam[k])
       THEN /\ srPc' = [srPc EXCEPT ![k] = "idle"]
            /\ srCam' = [srCam EXCEPT ![k] = "none"]
       ELSE /\ srPc' = [srPc EXCEPT ![k] = "l98"]
            /\ UNCHANGED srCam
    /\ UNCHANGED <<frame_buffer, recording, recording_threads, recThread, afPc,
                   appended, calls, dropped, started,
                   failedCams, otherThanRec>>

\* lines 98-107: mark the camera as recording, create and start the thread
start_recording_start(k) ==
    /\ srPc[k] = "l98"
    /\ LET c == srCam[k]
           t == started + 1
       IN /\ recording' = Put(recording, c, TRUE)
          /\ recording_threads' = Put(recording_threads, c, t)
          /\ recThread' = Put(recThread, t,
                              [cam |-> c, pc |-> "begin", frames |-> <<>>,
                               clip |-> <<>>, status |-> "running"])
    /\ started' = started + 1
    /\ srPc' = [srPc EXCEPT ![k] = "idle"]
    /\ srCam' = [srCam EXCEPT ![k] = "none"]
    /\ UNCHANGED <<frame_buffer, afPc, appended, calls, dropped, failedCams, otherThanRec>>

(***************************************************************************)
(* VideoRecorder._record_event, the body of a recording thread.            *)
(***************************************************************************)
\* lines 136-153: copy the buffer; with no frame give up, else write the copy
record_event_snapshot(t) ==
    /\ t \in DOMAIN recThread
    /\ recThread[t].pc = "begin"
    /\ LET c == recThread[t].cam
           frames == frame_buffer[c]
       IN IF frames = <<>>
          THEN /\ recording' = [recording EXCEPT ![c] = FALSE]
               /\ recThread' = [recThread EXCEPT ![t].pc = "finally",
                                                 ![t].status = "empty"]
          ELSE /\ recThread' = [recThread EXCEPT ![t].pc = "post",
                                                 ![t].frames = frames,
                                                 ![t].clip = frames]
               /\ UNCHANGED recording
    /\ UNCHANGED <<frame_buffer, recording_threads, afPc, srPc, srCam, appended,
                   calls, dropped, started,
                   failedCams, otherThanRec>>

(***************************************************************************)
(* Line 165, `current_buffer[-1] not in frames`: list membership compares  *)
(* the entries of frames in order, by identity and then by ==.  An entry   *)
(* is a dict {'frame': ndarray, 'timestamp': t}; == of two distinct        *)
(* entries compares their 'frame' arrays first, and the truth value of the *)
(* elementwise result raises ValueError.  So the test answers "present"    *)
(* when the first entry of frames is x itself, "absent" when frames is     *)
(* empty, and raises otherwise.                                            *)
(***************************************************************************)
Membership(x, frames) ==
    IF frames = <<>> THEN "absent"
    ELSE IF frames[1] = x THEN "present"
    ELSE "raises"

\* lines 159-171: one iteration of the post-event loop
record_event_post(t) ==
    /\ t \in DOMAIN recThread
    /\ recThread[t].pc = "post"
    /\ LET c == recThread[t].cam
           current_buffer == frame_buffer[c]
       IN IF c \in DOMAIN frame_buffer /\ current_buffer # <<>>
          THEN LET last == current_buffer[Len(current_buffer)]
                   m == Membership(last, recThread[t].frames)
               IN CASE m = "absent" ->
                         recThread' = [recThread EXCEPT ![t].clip = Append(@, last)]
                    [] m = "present" -> UNCHANGED recThread
                    [] m = "raises" ->
                         recThread' = [recThread EXCEPT ![t].pc = "finally",
                                                        ![t].status = "failed"]
          ELSE UNCHANGED recThread
    /\ UNCHANGED <<frame_buffer, recording, recording_threads, afPc, srPc, srCam,
                   appended, calls, dropped, started,
                   failedCams, otherThanRec>>

\* lines 159, 173-197: the post-event window is over; close the clip, write
\* the thumbnail and the metadata
record_event_finalize(t) ==
    /\ t \in DOMAIN recThread
    /\ recThread[t].pc = "post"
    /\ recThread' = [recThread EXCEPT ![t].pc = "finally", ![t].status = "done"]
    /\ UNCHANGED <<frame_buffer, recording, recording_threads, afPc, srPc, srCam,
                   appended, calls, dropped, started,
                   failedCams, otherThanRec>>

\* lines 199-200: a step of the try block raises: the writer (lines 148-153,
\* 167, 174), the thumbnail (lines 177-180) or the metadata (lines 183-195)
record_event_raise(t) ==
    /\ t \in DOMAIN recThread
    /\ recThread[t].pc \in {"begin", "post"}
    /\ recThread' = [recThread EXCEPT ![t].pc = "finally", ![t].status = "failed"]
    /\ UNCHANGED <<frame_buffer, recording, recording_threads, afPc, srPc, srCam,
                   appended, calls, dropped, started,
                   failedCams, otherThanRec>>

\* _record_event with the flag cleared at the end of the try block instead
\* of in a finally block: a job that raised leaves the flag set
record_event_no_finally(t) ==
    /\ t \in DOMAIN recThread
    /\ recThread[t].pc = "finally"
    /\ recording' = IF recThread[t].status = "failed" THEN recording
                    ELSE [recording EXCEPT ![recThread[t].cam] = FALSE]
    /\ recThread' = Drop(recThread, t)
    /\ failedCams' = IF recThread[t].status = "failed"
                     THEN failedCams \cup {recThread[t].cam}
                     ELSE failedCams
    /\ UNCHANGED <<frame_buffer, recording_threads, afPc, srPc, srCam, appended,
                   calls, dropped, started,
                   otherThanRec>>

\* lines 201-203: the finally block clears the flag; the thread ends
record_event_finally(t) ==
    /\ t \in DOMAIN recThread
    /\ recThread[t].pc = "finally"
    /\ recording' = [recording EXCEPT ![recThread[t].cam] = FALSE]
    /\ recThread' = Drop(recThread, t)
    /\ failedCams' = IF recThread[t].status = "failed"
                     THEN failedCams \cup {recThread[t].cam}
                     ELSE failedCams
    /\ UNCHANGED <<frame_buffer, recording_threads, afPc, srPc, srCam, appended,
                   calls, dropped, started,
                   otherThanRec>>

ThreadIds == 1..MaxTriggers

NextRec ==
    \/ \E c \in Cameras : add_frame_invalid(c)
    \/ \E c \in Cameras : add_frame_append(c)
    \/ \E c \in Cameras : add_frame_limit(c)
    \/ \E k \in Callers, c \in Cameras : start_recording_call(k, c)
    \/ \E k \in Callers : start_recording_check(k)
    \/ \E k \in Callers : start_recording_buffer(k)
    \/ \E k \in Callers : start_recording_start(k)
    \/ \E t \in ThreadIds : record_event_snapshot(t)
    \/ \E t \in ThreadIds : record_event_post(t)
    \/ \E t \in ThreadIds : record_event_finalize(t)
    \/ \E t \in ThreadIds : record_event_raise(t)
    \/ \E t \in ThreadIds : record_event_finally(t)

(***************************************************************************)
(* EventDetector (core/detection.py).                                      *)
(*                                                                         *)
(* Names are sequences of tokens, "_" being a token of its own, so that    *)
(* the event key f"{camera_name}_{class_name}" is modelled as the          *)
(* concatenation it is.  Confidences are in percent.                       *)
(***************************************************************************)
\* EventDetector.__init__
ClassesOfInterest == {"person", "car", "truck", "bus", "bicycle", "motorcycle"}
MinConfidence == 50
MinEventInterval == 5

\* camera names offered to the detector; the second one contains an underscore
DetCameras == {<<"cam1">>, <<"cam1", "_", "car">>}

\* threads that may evaluate frames
DetThreads == {"d1", "d2"}

\* a detection as returned by ObjectDetector.detect; bbox stands for the box
Det(cls, conf, box) == [class_name |-> cls, confidence |-> conf, bbox |-> box]

\* the detection lists offered to process_frame
DetectionInputs ==
    { <<Det("person", 90, 1)>>,
      <<Det("car", 60, 1)>>,
      <<Det("person", 60, 1), Det("car", 90, 2), Det("person", 90, 3)>>,
      <<Det("person", 30, 1), Det("dog", 90, 2)>> }

\* a variant of line 326 whose key leaves the class out
EventKeyCameraOnly(camera_name, class_name) == camera_name

\* line 326: event_key = f"{camera_name}_{class_name}"
EventKey(camera_name, class_name) == camera_name \o <<"_">> \o <<class_name>>

\* lines 291-294: the classes of interest with the minimum confidence
Qualifies(d) ==
    d.class_name \in ClassesOfInterest /\ d.confidence >= MinConfidence

FilterDetections(detections) == SelectSeq(detections, Qualifies)

\* lines 317-321: the keys of detections_by_class, in insertion order
RECURSIVE ClassOrder(_)
ClassOrder(detections) ==
    IF detections = <<>> THEN <<>>
    ELSE LET front == SubSeq(detections, 1, Len(detections) - 1)
             d == detections[Len(detections)]
             before == ClassOrder(front)
         IN IF d.class_name \in Range(before) THEN before
            ELSE Append(before, d.class_name)

\* lines 317-321: detections_by_class[class_name]
ClassDetections(detections, class_name) ==
    LET OfClass(d) == d.class_name = class_name
    IN SelectSeq(detections, OfClass)

\* a variant of line 334 that takes the first detection of the class
FirstDetection(class_detections) == class_detections[1]

\* line 334: max(class_detections, key=confidence), the first of the maxima
BestDetection(class_detections) ==
    LET i == CHOOSE i \in 1..Len(class_detections) :
                 /\ \A j \in 1..Len(class_detections) :
                        class_detections[j].confidence <= class_detections[i].confidence
                 /\ \A j \in 1..(i - 1) :
                        class_detections[j].confidence < class_detections[i].confidence
    IN class_detections[i]

\* line 329: self.last_event_time.get(event_key, 0)
LastTime(event_key) ==
    IF event_key \in DOMAIN last_event_time THEN last_event_time[event_key] ELSE 0

\* line 330: the event is suppressed
TooSoon(current_time, last_time) == current_time - last_time < MinEventInterval

IdleDet == [pc |-> "idle", camera_name |-> <<>>, current_time |-> 0,
            detections |-> <<>>, todo |-> <<>>, frame |-> 0]

InitDetVars(threads) ==
    /\ last_event_time = EmptyDict
    /\ det = [t \in threads |-> IdleDet]
    /\ frames_seen = <<>>
    /\ emitted = <<>>

\* the timestamp of the last frame passed to process_frame (time does not run back)
Clock == IF frames_seen = <<>> THEN 0 ELSE frames_seen[Len(frames_seen)].timestamp

(***************************************************************************)
(* EventDetector.process_frame, lines 284-297, and the grouping of         *)
(* _check_events, lines 312-321.                                           *)
(***************************************************************************)
process_frame_none(t) ==
    /\ t \in DOMAIN det
    /\ det[t].pc = "idle"
    /\ UNCHANGED vars

process_frame(t, camera_name, timestamp, detections) ==
    /\ t \in DOMAIN det
    /\ det[t].pc = "idle"
    /\ Len(frames_seen) < MaxFrames
    /\ timestamp >= Clock
    /\ LET filtered == FilterDetections(detections)
       IN /\ det' = [det EXCEPT ![t] =
                        [pc |-> "loop", camera_name |-> camera_name,
                         current_time |-> timestamp, detections |-> filtered,
                         todo |-> ClassOrder(filtered),
                         frame |-> Len(frames_seen) + 1]]
          /\ frames_seen' = Append(frames_seen,
                                   [camera_name |-> camera_name,
                                    timestamp |-> timestamp,
                                    detections |-> detections,
                                    classes |-> Range(ClassOrder(filtered))])
    /\ UNCHANGED <<last_event_time, emitted, otherThanDet>>

\* lines 324-331: the next class of the loop; its event is suppressed or due
check_events_test(t) ==
    /\ t \in DOMAIN det
    /\ det[t].pc = "loop"
    /\ det[t].todo # <<>>
    /\ LET event_key == EventKey(det[t].camera_name, Head(det[t].todo))
       IN IF TooSoon(det[t].current_time, LastTime(event_key))
          THEN det' = [det EXCEPT ![t].todo = Tail(@)]
          ELSE det' = [det EXCEPT ![t].pc = "emit"]
    /\ UNCHANGED <<last_event_time, frames_seen, emitted, otherThanDet>>

\* lines 334-346: create the event and record its time under the key
check_events_emit(t) ==
    /\ t \in DOMAIN det
    /\ det[t].pc = "emit"
    /\ LET class_name == Head(det[t].todo)
           best_detection == BestDetection(ClassDetections(det[t].detections, class_name))
           event == [type |-> class_name,
                     confidence |-> best_detection.confidence,
                     bbox |-> best_detection.bbox,
                     timestamp |-> det[t].current_time,
                     camera_name |-> det[t].camera_name,
                     frame |-> det[t].frame]
       IN /\ emitted' = Append(emitted, event)
          /\ last_event_time' = Put(last_event_time,
                                    EventKey(det[t].camera_name, class_name),
                                    det[t].current_time)
    /\ det' = [det EXCEPT ![t].pc = "loop", ![t].todo = Tail(@)]
    /\ UNCHANGED <<frames_seen, otherThanDet>>

\* line 348: return events
check_events_return(t) ==
    /\ t \in DOMAIN det
    /\ det[t].pc = "loop"
    /\ det[t].todo = <<>>
    /\ det' = [det EXCEPT ![t] = IdleDet]
    /\ UNCHANGED <<last_event_time, frames_seen, emitted, otherThanDet>>

NextDet ==
    \/ \E t \in DetThreads : process_frame_none(t)
    \/ \E t \in DetThreads, c \in DetCameras, ts \in 0..MaxTime, d \in DetectionInputs :
           process_frame(t, c, ts, d)
    \/ \E t \in DetThreads : check_events_test(t)
    \/ \E t \in DetThreads : check_events_emit(t)
    \/ \E t \in DetThreads : check_events_return(t)

(***************************************************************************)
(* CameraStream (core/camera.py): one stream and its capture thread.       *)
(* The capture source is the environment: every open and read has one of   *)
(* the outcomes the OpenCV handle can produce, chosen nondeterministically.*)
(* Elapsed times (reconnect interval, log period) are environment choices. *)
(***************************************************************************)
\* _run, line 127
MaxReconnectAttempts == 5
\* _run, line 188: error_count > 5
ReadFailureLimit == 5
\* _run, line 212: error_count > 3
ExceptionLimit == 3

\* the locals of _run at its start, lines 122-127
RunLocals == [pc |-> "top", error_count |-> 0, reconnect_attempts |-> 0,
              last_reconnect_time |-> "never"]

NoThread == [pc |-> "none", error_count |-> 0, reconnect_attempts |-> 0,
             last_reconnect_time |-> "never"]

\* CameraStream.__init__
InitCam ==
    /\ cap = "none"
    /\ connected = FALSE
    /\ running = FALSE
    /\ frame = 0
    /\ run = NoThread
    /\ stopPc = "idle"
    /\ consecFails = 0
    /\ consecRaises = 0
    /\ phase = "init"
    /\ callbacks = <<>>
    /\ delivered = [cb \in CallbackIds |-> 0]
    /\ raised = [cb \in CallbackIds |-> 0]
    /\ handed = <<>>
    /\ attempt = "none"
    /\ stopped = FALSE

(***************************************************************************)
(* CameraStream._connect, lines 38-100.  The outcomes:                     *)
(*   "open_fails"        the new VideoCapture is not opened (lines 68-70); *)
(*   "no_first_frame"    the test read returns no frame (lines 73-77);     *)
(*   "ok"                opened and first frame read (lines 95-97);        *)
(*   "open_raises"       the release of the old handle or the constructor  *)
(*                       raises (lines 42-65, 98-100);                     *)
(*   "first_read_raises" the test read raises (lines 73, 98-100).          *)
(* The result is the handle afterwards and the value returned.             *)
(***************************************************************************)
ConnectOutcomes ==
    {"open_fails", "no_first_frame", "ok", "open_raises", "first_read_raises"}

\* lines 42-43: the handle after the release of the previous one
Released(h) == IF h = "none" THEN "none" ELSE "closed"

Connect(outcome) ==
    CASE outcome = "open_fails"        -> [cap |-> "closed", ok |-> FALSE]
      [] outcome = "no_first_frame"    -> [cap |-> "closed", ok |-> FALSE]
      [] outcome = "ok"                -> [cap |-> "open", ok |-> TRUE]
      [] outcome = "open_raises"       -> [cap |-> Released(cap), ok |-> FALSE]
      [] outcome = "first_read_raises" -> [cap |-> "open", ok |-> FALSE]

\* a _connect that opened the source and read a first frame
OpenedAndRead(outcome) == outcome = "ok"

\* CameraStream.add_callback, lines 32-34; a callback is registered once
add_callback(cb) ==
    /\ cb \notin Range(callbacks)
    /\ callbacks' = Append(callbacks, cb)
    /\ UNCHANGED <<cap, connected, running, frame, run, stopPc, consecFails, consecRaises, phase,
                   delivered, raised, handed, attempt, stopped, otherThanCam>>

\* the result of a _connect call, as start() and _run test it
Attempt(ok) == IF ok THEN "ok" ELSE "failed"

\* CameraStream.start, lines 224-226: already running
start_running ==
    /\ running
    /\ UNCHANGED vars

\* CameraStream.start, lines 228-236; the call is made when no stop() is in
\* progress and the capture thread of an earlier run has ended
start(outcome) ==
    /\ ~running
    /\ stopPc = "idle"
    /\ run.pc = "none"
    /\ LET r == Connect(outcome)
       IN /\ cap' = r.cap
          /\ IF r.ok
             THEN /\ connected' = TRUE
                  /\ running' = TRUE
                  /\ run' = RunLocals
             ELSE UNCHANGED <<connected, running, run>>
          /\ attempt' = Attempt(r.ok)
    /\ phase' = IF OpenedAndRead(outcome) THEN "streaming" ELSE phase
    /\ consecFails' = IF OpenedAndRead(outcome) THEN 0 ELSE consecFails
    /\ consecRaises' = IF OpenedAndRead(outcome) THEN 0 ELSE consecRaises
    /\ stopped' = FALSE
    /\ UNCHANGED <<frame, stopPc, cbVars, otherThanCam>>

(***************************************************************************)
(* CameraStream._run, the capture loop.                                    *)
(***************************************************************************)
\* line 135: not self.cap or not self.cap.isOpened()
NotOpened == cap # "open"

\* line 131: the loop ends when running is cleared
run_exit ==
    /\ run.pc = "top"
    /\ ~running
    /\ run' = NoThread
    /\ UNCHANGED <<cap, connected, running, frame, stopPc, consecFails, consecRaises, phase,
                   cbVars, attempt, stopped, otherThanCam>>

\* lines 135, 166-169: the handle is open, go on to read
run_opened ==
    /\ run.pc = "top"
    /\ running
    /\ ~NotOpened
    /\ run' = [run EXCEPT !.pc = "read"]
    /\ UNCHANGED <<cap, connected, running, frame, stopPc, consecFails, consecRaises, phase,
                   cbVars, attempt, stopped, otherThanCam>>

\* lines 135-141: not opened, and the reconnect interval has not elapsed
run_wait ==
    /\ run.pc = "top"
    /\ running
    /\ NotOpened
    /\ run.last_reconnect_time = "set"
    /\ connected' = FALSE
    /\ UNCHANGED <<cap, running, frame, run, stopPc, consecFails, consecRaises, phase, cbVars, attempt, stopped, otherThanCam>>

\* lines 143-154: too many attempts in a row, a long wait resets the counter
run_give_up ==
    /\ run.pc = "top"
    /\ running
    /\ NotOpened
    /\ run.reconnect_attempts + 1 > MaxReconnectAttempts
    /\ connected' = FALSE
    /\ run' = [run EXCEPT !.last_reconnect_time = "set", !.reconnect_attempts = 0]
    /\ UNCHANGED <<cap, running, frame, stopPc, consecFails, consecRaises, phase, cbVars, attempt, stopped, otherThanCam>>

\* lines 131-146: not opened, the interval has elapsed, an attempt is due;
\* _connect is then called (line 157) and returns after the time the source
\* takes to answer
run_reconnect_begin ==
    /\ run.pc = "top"
    /\ running
    /\ NotOpened
    /\ run.reconnect_attempts + 1 <= MaxReconnectAttempts
    /\ connected' = FALSE
    /\ run' = [run EXCEPT !.pc = "connect", !.last_reconnect_time = "set",
                          !.reconnect_attempts = @ + 1]
    /\ UNCHANGED <<cap, running, frame, stopPc, consecFails, consecRaises, phase, cbVars, attempt,
                   stopped, otherThanCam>>

\* lines 157-164: the reconnection attempt returns
run_reconnect(outcome) ==
    /\ run.pc = "connect"
    /\ LET r == Connect(outcome)
       IN /\ cap' = r.cap
          /\ connected' = IF r.ok THEN TRUE ELSE connected
          /\ run' = IF r.ok
                    THEN [run EXCEPT !.pc = "read",
                                     !.reconnect_attempts = 0, !.error_count = 0]
                    ELSE [run EXCEPT !.pc = "top"]
          /\ attempt' = IF running THEN Attempt(r.ok) ELSE attempt
    /\ phase' = IF OpenedAndRead(outcome) THEN "streaming" ELSE phase
    /\ consecFails' = IF OpenedAndRead(outcome) THEN 0 ELSE consecFails
    /\ consecRaises' = IF OpenedAndRead(outcome) THEN 0 ELSE consecRaises
    /\ UNCHANGED <<running, frame, stopPc, cbVars, stopped, otherThanCam>>

\* lines 169-172: the handle closed between the two tests
run_closed ==
    /\ run.pc = "read"
    /\ cap = "closed"
    /\ connected' = FALSE
    /\ run' = [run EXCEPT !.pc = "top"]
    /\ UNCHANGED <<cap, running, frame, stopPc, consecFails, consecRaises, phase, cbVars, attempt, stopped, otherThanCam>>

\* lines 177-181: the periodic log clears the counters when its period has elapsed
AfterLog(error_count, log) == IF log THEN 0 ELSE error_count

\* line 188: enough failed reads to reconnect
TooManyFailures(error_count) == error_count > ReadFailureLimit

\* line 212: enough exceptions to reconnect
TooManyExceptions(error_count) == error_count > ExceptionLimit

\* lines 174-197: the read returns no frame
run_read_fails(log) ==
    /\ run.pc = "read"
    /\ ~NotOpened
    /\ LET n == Min(AfterLog(run.error_count, log) + 1, MaxErrorCount)
       IN /\ run' = [run EXCEPT !.pc = "top", !.error_count = n]
          /\ IF TooManyFailures(n)
             THEN /\ cap' = "closed"
                  /\ connected' = FALSE
                  /\ phase' = "backoff"
             ELSE UNCHANGED <<cap, connected, phase>>
    /\ consecFails' = Min(consecFails + 1, MaxConsecFails)
    /\ consecRaises' = 0
    /\ UNCHANGED <<running, frame, stopPc, cbVars, attempt, stopped, otherThanCam>>

\* _process_frame with the try around the whole loop: the first callback
\* that raises ends the delivery
CalledUntilRaise(cbs, raising) ==
    {cbs[i] : i \in {j \in 1..Len(cbs) : \A k \in 1..(j - 1) : cbs[k] \notin raising}}

\* _process_frame, lines 114-118: the callbacks that are called with a frame
\* when those of the set raising raise; the try is inside the loop
Called(cbs, raising) == Range(cbs)

\* the content of an array into which a subscriber has written
Scribbled == -1

\* _process_frame passing frame itself to the callback: what the callback
\* writes is written into frame
SharedWith(content, writes) == IF writes THEN Scribbled ELSE content

\* _process_frame, line 116: the callback is given frame.copy(), an array of
\* its own; the content of frame after the call, whether the callback writes
\* into the array it was given or not
CopiedFor(content, writes) == content

\* _process_frame, lines 114-118: the calls made for a frame, in order, each
\* with the content of the array it is given; the callbacks of the set
\* mutating write into the array they are given
RECURSIVE ProcessFrame(_, _, _)
ProcessFrame(cbs, content, mutating) ==
    IF cbs = <<>> THEN <<>>
    ELSE <<[cb |-> Head(cbs), content |-> content]>>
         \o ProcessFrame(Tail(cbs), CopiedFor(content, Head(cbs) \in mutating),
                         mutating)

\* the content of frame after the calls of _process_frame
RECURSIVE FrameAfter(_, _, _)
FrameAfter(cbs, content, mutating) ==
    IF cbs = <<>> THEN content
    ELSE FrameAfter(Tail(cbs), CopiedFor(content, Head(cbs) \in mutating), mutating)

\* lines 174-181, 198-206: a frame is read and passed to the callbacks, of
\* which those of the set raising raise and those of the set mutating write
\* into the array they are given
run_read_ok(log, raising, mutating) ==
    /\ run.pc = "read"
    /\ ~NotOpened
    /\ frame < MaxCaptured
    /\ raising \subseteq Range(callbacks)
    /\ mutating \subseteq Range(callbacks)
    /\ run' = [run EXCEPT !.pc = "top", !.error_count = 0]
    /\ connected' = TRUE
    /\ frame' = FrameAfter(callbacks, frame + 1, mutating)
    /\ handed' = ProcessFrame(callbacks, frame + 1, mutating)
    /\ delivered' = [cb \in CallbackIds |->
                       IF cb \in Called(callbacks, raising) THEN frame + 1
                       ELSE delivered[cb]]
    /\ raised' = [cb \in CallbackIds |->
                    IF cb \in Called(callbacks, raising) \cap raising THEN frame + 1
                    ELSE raised[cb]]
    /\ consecFails' = 0
    /\ consecRaises' = 0
    /\ UNCHANGED <<cap, running, stopPc, phase, callbacks, attempt, stopped,
                   otherThanCam>>

\* lines 169-174, 207-217: the read raises, or self.cap is None at line 169
run_read_raises ==
    /\ run.pc = "read"
    /\ cap \in {"open", "none"}
    /\ LET n == Min(run.error_count + 1, MaxErrorCount)
       IN /\ run' = [run EXCEPT !.pc = "top", !.error_count = n]
          /\ IF TooManyExceptions(n)
             THEN /\ cap' = Released(cap)
                  /\ connected' = FALSE
                  /\ phase' = "backoff"
             ELSE UNCHANGED <<cap, connected, phase>>
    /\ consecFails' = 0
    /\ consecRaises' = Min(consecRaises + 1, MaxConsecFails)
    /\ UNCHANGED <<running, frame, stopPc, cbVars, attempt, stopped, otherThanCam>>

(***************************************************************************)
(* CameraStream.stop, lines 238-252.  The join of line 247 ends when the   *)
(* capture thread has ended or after its timeout of 5 s.                   *)
(***************************************************************************)
\* lines 240-241
stop_not_running ==
    /\ stopPc = "idle"
    /\ ~running
    /\ attempt' = "none"
    /\ UNCHANGED <<cap, connected, running, frame, run, stopPc, consecFails, consecRaises, phase,
                   cbVars, stopped, otherThanCam>>

\* line 244
stop_begin ==
    /\ stopPc = "idle"
    /\ running
    /\ running' = FALSE
    /\ stopPc' = "join"
    /\ attempt' = "none"
    /\ UNCHANGED <<cap, connected, frame, run, consecFails, consecRaises, phase, cbVars, stopped,
                   otherThanCam>>

\* lines 246-247: the thread has ended
stop_joined ==
    /\ stopPc = "join"
    /\ run.pc = "none"
    /\ stopPc' = "release"
    /\ UNCHANGED <<cap, connected, running, frame, run, consecFails, consecRaises, phase,
                   cbVars, attempt, stopped, otherThanCam>>

\* lines 246-247: the join times out, the thread is still in its loop
stop_join_timeout ==
    /\ stopPc = "join"
    /\ run.pc # "none"
    /\ stopPc' = "release"
    /\ UNCHANGED <<cap, connected, running, frame, run, consecFails, consecRaises, phase,
                   cbVars, attempt, stopped, otherThanCam>>

\* lines 249-252
stop_release ==
    /\ stopPc = "release"
    /\ cap' = Released(cap)
    /\ connected' = FALSE
    /\ stopPc' = "idle"
    /\ phase' = "init"
    /\ stopped' = TRUE
    /\ UNCHANGED <<running, frame, run, consecFails, consecRaises, cbVars, attempt, otherThanCam>>

NextCam ==
    \/ \E cb \in CallbackIds : add_callback(cb)
    \/ start_running
    \/ \E outcome \in ConnectOutcomes : start(outcome)
    \/ run_exit
    \/ run_opened
    \/ run_wait
    \/ run_give_up
    \/ run_reconnect_begin
    \/ \E outcome \in ConnectOutcomes : run_reconnect(outcome)
    \/ run_closed
    \/ \E log \in BOOLEAN : run_read_fails(log)
    \/ \E log \in BOOLEAN, raising \in SUBSET CallbackIds,
          mutating \in SUBSET CallbackIds : run_read_ok(log, raising, mutating)
    \/ run_read_raises
    \/ stop_not_running
    \/ stop_begin
    \/ stop_joined
    \/ stop_join_timeout
    \/ stop_release

(***************************************************************************)
(* RTSPCamera and RealtimeSession (api/realtime_detection.py): one session *)
(* and its camera.  RTSPCamera.stop is called by RealtimeSession.stop (the *)
(* caller "ext") and by the capture thread when its loop ends (the caller  *)
(* "loop"); the statements of the two calls interleave.  A session is      *)
(* started again only when the threads of its earlier run have ended.      *)
(***************************************************************************)
StopCallers == {"ext", "loop"}

\* RTSPCamera.__init__, lines 137-140, and RealtimeSession.__init__, lines 265-271
InitSess ==
    /\ rtsp_cap = "none"
    /\ rtsp_running = FALSE
    /\ rtsp_thread = "none"
    /\ q = 0
    /\ loop = "none"
    /\ sp = [c \in StopCallers |-> "idle"]
    /\ rtsp_releases = 0
    /\ stopRaised = [c \in StopCallers |-> FALSE]
    /\ active = FALSE
    /\ infer_thread = "none"
    /\ last_jpeg = 0
    /\ websockets = 0
    /\ sess = "idle"
    /\ sessStops = 0
    /\ start_raised = FALSE

\* RealtimeSession.start, lines 274-275: already active
session_start_active ==
    /\ sess = "idle"
    /\ active
    /\ start_raised' = FALSE
    /\ UNCHANGED <<rtspVars, active, infer_thread, last_jpeg, websockets, sess,
                   sessStops, otherThanSess>>

\* RealtimeSession.start, lines 276-280, with RTSPCamera.start, lines 164-169,
\* and _open, lines 149-161: opened says whether the new handle is opened;
\* when it is not, _open raises and start() ends at line 277
session_start(opened) ==
    /\ sess = "idle"
    /\ ~active
    /\ loop = "none" /\ infer_thread = "none"
    /\ active' = TRUE
    /\ sessStops' = 0
    /\ IF rtsp_running
       THEN UNCHANGED <<rtsp_cap, rtsp_running, rtsp_thread, loop, rtsp_releases>>
       ELSE /\ rtsp_releases' = 0
            /\ IF opened
               THEN /\ rtsp_cap' = "open"
                    /\ rtsp_running' = TRUE
                    /\ rtsp_thread' = "set"
                    /\ loop' = "test"
               ELSE /\ rtsp_cap' = "closed"
                    /\ UNCHANGED <<rtsp_running, rtsp_thread, loop>>
    /\ infer_thread' = IF rtsp_running \/ opened THEN "test" ELSE "none"
    /\ start_raised' = (~rtsp_running /\ ~opened)
    /\ UNCHANGED <<q, sp, stopRaised, last_jpeg, websockets, sess, otherThanSess>>

\* RealtimeSession.add_ws, lines 353-354, for a session in use
add_ws ==
    /\ active
    /\ websockets < MaxWebsockets
    /\ websockets' = websockets + 1
    /\ UNCHANGED <<rtspVars, active, infer_thread, last_jpeg, sess, sessStops,
                   start_raised, otherThanSess>>

(***************************************************************************)
(* RTSPCamera._loop, lines 172-202.                                        *)
(***************************************************************************)
\* line 174
loop_test ==
    /\ loop = "test"
    /\ loop' = IF rtsp_running THEN "cap" ELSE "stop"
    /\ UNCHANGED <<rtsp_cap, rtsp_running, rtsp_thread, q, sp, rtsp_releases,
                   stopRaised, sessionVars, start_raised, otherThanSess>>

\* lines 175-176
loop_cap ==
    /\ loop = "cap"
    /\ loop' = IF rtsp_cap = "none" THEN "stop" ELSE "grab"
    /\ UNCHANGED <<rtsp_cap, rtsp_running, rtsp_thread, q, sp, rtsp_releases,
                   stopRaised, sessionVars, start_raised, otherThanSess>>

\* where the loop goes after self.cap.grab() or self.cap.retrieve(): on None
\* the attribute lookup raises and the thread ends without calling stop();
\* a released handle gives no frame
AfterCapCall(got, next) ==
    IF rtsp_cap = "none" THEN "none"
    ELSE IF rtsp_cap = "open" /\ got THEN next
    ELSE "test"

\* lines 178-181
loop_grab(grabbed) ==
    /\ loop = "grab"
    /\ loop' = AfterCapCall(grabbed, "retrieve")
    /\ UNCHANGED <<rtsp_cap, rtsp_running, rtsp_thread, q, sp, rtsp_releases,
                   stopRaised, sessionVars, start_raised, otherThanSess>>

\* lines 183-185
loop_retrieve(ok) ==
    /\ loop = "retrieve"
    /\ loop' = AfterCapCall(ok, "put")
    /\ UNCHANGED <<rtsp_cap, rtsp_running, rtsp_thread, q, sp, rtsp_releases,
                   stopRaised, sessionVars, start_raised, otherThanSess>>

\* lines 188-196: the queue keeps the newest frame only
loop_put ==
    /\ loop = "put"
    /\ q' = 1
    /\ loop' = "test"
    /\ UNCHANGED <<rtsp_cap, rtsp_running, rtsp_thread, sp, rtsp_releases,
                   stopRaised, sessionVars, start_raised, otherThanSess>>

(***************************************************************************)
(* RTSPCamera.stop, lines 210-245, called by c.                            *)
(***************************************************************************)
\* the call of c is at position pc
StopAt(c, pc) == sp[c] = pc

\* what the end of the call of c changes for its caller: RealtimeSession.stop
\* goes on at line 299 (an exception is caught at line 296), the capture
\* thread ends
StopReturns(c, raises) ==
    /\ sp' = [sp EXCEPT ![c] = "idle"]
    /\ stopRaised' = [stopRaised EXCEPT ![c] = raises]
    /\ IF c = "loop"
       THEN loop' = "none" /\ UNCHANGED sess
       ELSE sess' = "ws" /\ UNCHANGED loop

\* line 212
rtsp_stop_begin(c) ==
    /\ StopAt(c, "idle")
    /\ \/ c = "ext" /\ sess = "camera"
       \/ c = "loop" /\ loop = "stop"
    /\ rtsp_running' = FALSE
    /\ sp' = [sp EXCEPT ![c] = "drain"]
    /\ stopRaised' = [stopRaised EXCEPT ![c] = FALSE]
    /\ UNCHANGED <<rtsp_cap, rtsp_thread, q, loop, rtsp_releases, sessionVars,
                   start_raised, otherThanSess>>

\* lines 215-225
rtsp_stop_drain(c) ==
    /\ StopAt(c, "drain")
    /\ q' = 0
    /\ sp' = [sp EXCEPT ![c] = "test_cap"]
    /\ UNCHANGED <<rtsp_cap, rtsp_running, rtsp_thread, loop, rtsp_releases,
                   stopRaised, sessionVars, start_raised, otherThanSess>>

\* line 228
rtsp_stop_test_cap(c) ==
    /\ StopAt(c, "test_cap")
    /\ sp' = [sp EXCEPT ![c] = IF rtsp_cap # "none" THEN "release" ELSE "clear_cap"]
    /\ UNCHANGED <<rtsp_cap, rtsp_running, rtsp_thread, q, loop, rtsp_releases,
                   stopRaised, sessionVars, start_raised, otherThanSess>>

\* lines 229-232: release() on the handle; on None the lookup raises and the
\* exception is caught
rtsp_stop_release(c) ==
    /\ StopAt(c, "release")
    /\ IF rtsp_cap = "none"
       THEN UNCHANGED <<rtsp_cap, rtsp_releases>>
       ELSE /\ rtsp_cap' = "closed"
            /\ rtsp_releases' = rtsp_releases + 1
    /\ sp' = [sp EXCEPT ![c] = "clear_cap"]
    /\ UNCHANGED <<rtsp_running, rtsp_thread, q, loop, stopRaised, sessionVars,
                   start_raised, otherThanSess>>

\* stop() without line 235: self.cap keeps the released handle
rtsp_stop_keep_cap(c) ==
    /\ StopAt(c, "clear_cap")
    /\ sp' = [sp EXCEPT ![c] = "test_thread"]
    /\ UNCHANGED <<rtsp_cap, rtsp_running, rtsp_thread, q, loop, rtsp_releases,
                   stopRaised, sessionVars, start_raised, otherThanSess>>

\* line 235
rtsp_stop_clear_cap(c) ==
    /\ StopAt(c, "clear_cap")
    /\ rtsp_cap' = "none"
    /\ sp' = [sp EXCEPT ![c] = "test_thread"]
    /\ UNCHANGED <<rtsp_running, rtsp_thread, q, loop, rtsp_releases, stopRaised,
                   sessionVars, start_raised, otherThanSess>>

\* line 238, first operand: self.thread
rtsp_stop_test_thread(c) ==
    /\ StopAt(c, "test_thread")
    /\ sp' = [sp EXCEPT ![c] = IF rtsp_thread = "none" THEN "clear_thread"
                                ELSE "is_alive"]
    /\ UNCHANGED <<rtsp_cap, rtsp_running, rtsp_thread, q, loop, rtsp_releases,
                   stopRaised, sessionVars, start_raised, otherThanSess>>

\* line 238, second and third operands: self.thread is read again for
\* is_alive(); on None the lookup raises, outside any try
rtsp_stop_is_alive(c) ==
    /\ StopAt(c, "is_alive")
    /\ IF rtsp_thread = "none"
       THEN /\ StopReturns(c, TRUE)
            /\ UNCHANGED <<rtsp_cap, rtsp_running, rtsp_thread, q, rtsp_releases,
                           active, infer_thread, last_jpeg, websockets, sessStops,
                           start_raised, otherThanSess>>
       ELSE /\ sp' = [sp EXCEPT ![c] = IF loop # "none" /\ c # "loop" THEN "join"
                                       ELSE "clear_thread"]
            /\ UNCHANGED <<rtsp_cap, rtsp_running, rtsp_thread, q, loop,
                           rtsp_releases, stopRaised, sessionVars, start_raised, otherThanSess>>

\* lines 239-242: the join ends when the thread has ended or after 1 s
rtsp_stop_join(c) ==
    /\ StopAt(c, "join")
    /\ sp' = [sp EXCEPT ![c] = "clear_thread"]
    /\ UNCHANGED <<rtsp_cap, rtsp_running, rtsp_thread, q, loop, rtsp_releases,
                   stopRaised, sessionVars, start_raised, otherThanSess>>

\* lines 244-245
rtsp_stop_clear_thread(c) ==
    /\ StopAt(c, "clear_thread")
    /\ rtsp_thread' = "none"
    /\ StopReturns(c, FALSE)
    /\ UNCHANGED <<rtsp_cap, rtsp_running, q, rtsp_releases, active, infer_thread,
                   last_jpeg, websockets, sessStops, start_raised, otherThanSess>>

(***************************************************************************)
(* RealtimeSession.stop, lines 282-302.                                    *)
(***************************************************************************)
\* line 284
session_stop_begin ==
    /\ sess = "idle"
    /\ sessStops < MaxStops
    /\ active' = FALSE
    /\ sess' = "jpeg"
    /\ UNCHANGED <<rtspVars, infer_thread, last_jpeg, websockets, sessStops,
                   start_raised, otherThanSess>>

\* lines 287-291; the call of line 295 follows
session_stop_jpeg ==
    /\ sess = "jpeg"
    /\ last_jpeg' = 0
    /\ sess' = "camera"
    /\ UNCHANGED <<rtspVars, active, infer_thread, websockets, sessStops,
                   start_raised, otherThanSess>>

\* lines 299-302
session_stop_end ==
    /\ sess = "ws"
    /\ websockets' = 0
    /\ sess' = "idle"
    /\ sessStops' = sessStops + 1
    /\ UNCHANGED <<rtspVars, active, infer_thread, last_jpeg, start_raised, otherThanSess>>

(***************************************************************************)
(* RealtimeSession._infer_loop, lines 312-351.                             *)
(***************************************************************************)
\* line 314
infer_test ==
    /\ infer_thread = "test"
    /\ infer_thread' = IF active THEN "read" ELSE "none"
    /\ UNCHANGED <<rtspVars, active, last_jpeg, websockets, sess, sessStops,
                   start_raised, otherThanSess>>

\* lines 315-317, with RTSPCamera.read, lines 204-208
infer_read ==
    /\ infer_thread = "read"
    /\ q' = 0
    /\ infer_thread' = IF q = 1 THEN "infer" ELSE "test"
    /\ UNCHANGED <<rtsp_cap, rtsp_running, rtsp_thread, loop, sp, rtsp_releases,
                   stopRaised, active, last_jpeg, websockets, sess, sessStops,
                   start_raised, otherThanSess>>

\* lines 319-346: the frame is annotated and encoded; encoded says whether
\* the JPEG was produced
infer_store(encoded) ==
    /\ infer_thread = "infer"
    /\ last_jpeg' = IF encoded THEN 1 ELSE last_jpeg
    /\ infer_thread' = "test"
    /\ UNCHANGED <<rtspVars, active, websockets, sess, sessStops, start_raised, otherThanSess>>

NextSess ==
    \/ session_start_active
    \/ \E opened \in BOOLEAN : session_start(opened)
    \/ add_ws
    \/ loop_test
    \/ loop_cap
    \/ \E grabbed \in BOOLEAN : loop_grab(grabbed)
    \/ \E ok \in BOOLEAN : loop_retrieve(ok)
    \/ loop_put
    \/ \E c \in StopCallers : rtsp_stop_begin(c)
    \/ \E c \in StopCallers : rtsp_stop_drain(c)
    \/ \E c \in StopCallers : rtsp_stop_test_cap(c)
    \/ \E c \in StopCallers : rtsp_stop_release(c)
    \/ \E c \in StopCallers : rtsp_stop_clear_cap(c)
    \/ \E c \in StopCallers : rtsp_stop_test_thread(c)
    \/ \E c \in StopCallers : rtsp_stop_is_alive(c)
    \/ \E c \in StopCallers : rtsp_stop_join(c)
    \/ \E c \in StopCallers : rtsp_stop_clear_thread(c)
    \/ session_stop_begin
    \/ session_stop_jpeg
    \/ session_stop_end
    \/ infer_test
    \/ infer_read
    \/ \E encoded \in BOOLEAN : infer_store(encoded)

(***************************************************************************)
(* CameraManager (core/camera.py, lines 262-366).  The registry maps a     *)
(* camera id to a CameraStream object; objects are numbered in the order   *)
(* of their construction.  The object StreamObj is the stream described by *)
(* the CameraStream variables above: it is the only one that is started.   *)
(* No method of the manager takes a lock: the statements of concurrent     *)
(* calls interleave.                                                       *)
(***************************************************************************)
CameraIds == {"c1", "c2"}

MgrCallers == {"m1", "m2"}

StreamObj == 1

\* the names a CameraStream object has: the attributes set by __init__
\* (lines 24-30) and the methods of the class (lines 32-260)
StreamAttributes ==
    {"config", "cap", "frame", "running", "thread", "callbacks", "connected",
     "add_callback", "_connect", "_process_frame", "_run", "start", "stop",
     "get_frame", "is_connected"}

\* a caller that is in no call; op, camera_id and ret are those of its last call
IdleCall == [pc |-> "idle", op |-> "none", camera_id |-> "none", camera |-> 0,
             ret |-> "none"]

\* CameraManager.__init__, line 266
InitMgr(callers) ==
    /\ cameras = EmptyDict
    /\ created = 0
    /\ mgr = [m \in callers |-> IdleCall]
    /\ removed = {}
    /\ balance = [id \in CameraIds |-> 0]

\* the registry entries that refer to the object
IdsOf(obj) == {id \in DOMAIN cameras : cameras[id] = obj}

\* the call of m returns ret
Return(m, ret) == [mgr[m] EXCEPT !.pc = "idle", !.camera = 0, !.ret = ret]

\* add_camera without the test of line 270
add_camera_unchecked(m, camera_id) ==
    /\ mgr[m].pc = "idle"
    /\ mgr' = [mgr EXCEPT ![m] = [pc |-> "create", op |-> "add",
                                  camera_id |-> camera_id, camera |-> 0,
                                  ret |-> "none"]]
    /\ UNCHANGED <<cameras, created, removed, balance, otherThanMgr>>

\* add_camera, lines 270-272
add_camera_check(m, camera_id) ==
    /\ mgr[m].pc = "idle"
    /\ mgr' = [mgr EXCEPT ![m] =
                 IF camera_id \in DOMAIN cameras
                 THEN [pc |-> "idle", op |-> "add", camera_id |-> camera_id,
                       camera |-> 0, ret |-> "False"]
                 ELSE [pc |-> "create", op |-> "add", camera_id |-> camera_id,
                       camera |-> 0, ret |-> "none"]]
    /\ UNCHANGED <<cameras, created, removed, balance, otherThanMgr>>

\* add_camera, lines 274-277
add_camera_store(m) ==
    /\ mgr[m].pc = "create"
    /\ created < MaxObjects
    /\ created' = created + 1
    /\ cameras' = Put(cameras, mgr[m].camera_id, created + 1)
    /\ mgr' = [mgr EXCEPT ![m] = Return(m, "True")]
    /\ balance' = [balance EXCEPT ![mgr[m].camera_id] = @ + 1]
    /\ UNCHANGED <<removed, otherThanMgr>>

\* remove_camera on an absent id with the result of a removal
remove_camera_absent_ok(m, camera_id) ==
    /\ mgr[m].pc = "idle"
    /\ camera_id \notin DOMAIN cameras
    /\ mgr' = [mgr EXCEPT ![m] = [pc |-> "idle", op |-> "remove",
                                  camera_id |-> camera_id, camera |-> 0,
                                  ret |-> "True"]]
    /\ balance' = [balance EXCEPT ![camera_id] = @ - 1]
    /\ UNCHANGED <<cameras, created, removed, otherThanMgr>>

\* remove_camera, lines 289, 329-331: the id is not in the registry
remove_camera_absent(m, camera_id) ==
    /\ mgr[m].pc = "idle"
    /\ camera_id \notin DOMAIN cameras
    /\ mgr' = [mgr EXCEPT ![m] = [pc |-> "idle", op |-> "remove",
                                  camera_id |-> camera_id, camera |-> 0,
                                  ret |-> "False"]]
    /\ UNCHANGED <<cameras, created, removed, balance, otherThanMgr>>

\* remove_camera, lines 289-291: the id is in the registry
remove_camera_check(m, camera_id) ==
    /\ mgr[m].pc = "idle"
    /\ camera_id \in DOMAIN cameras
    /\ mgr' = [mgr EXCEPT ![m] = [pc |-> "stop", op |-> "remove",
                                  camera_id |-> camera_id,
                                  camera |-> cameras[camera_id], ret |-> "none"]]
    /\ UNCHANGED <<cameras, created, removed, balance, otherThanMgr>>

\* remove_camera, lines 294-301: the lookup of camera.is_running raises
\* AttributeError when the object has no such name, and the exception is
\* caught at line 300; otherwise a running camera is stopped
remove_camera_stop(m) ==
    /\ mgr[m].pc = "stop"
    /\ mgr' = [mgr EXCEPT ![m].pc = "callbacks"]
    /\ IF "is_running" \in StreamAttributes /\ mgr[m].camera = StreamObj /\ running
       THEN /\ running' = FALSE
            /\ cap' = Released(cap)
            /\ connected' = FALSE
       ELSE UNCHANGED <<cap, connected, running>>
    /\ UNCHANGED <<cameras, created, removed, balance, frame, run, stopPc,
                   consecFails, consecRaises, phase, cbVars, attempt, stopped,
                   otherThanCamMgr>>

\* remove_camera, lines 304-309
remove_camera_callbacks(m) ==
    /\ mgr[m].pc = "callbacks"
    /\ mgr' = [mgr EXCEPT ![m].pc = "cap"]
    /\ callbacks' = IF mgr[m].camera = StreamObj THEN <<>> ELSE callbacks
    /\ UNCHANGED <<cameras, created, removed, balance, cap, connected, running,
                   frame, run, stopPc, consecFails, consecRaises, phase, delivered, raised, handed,
                   attempt, stopped, otherThanCamMgr>>

\* remove_camera, lines 312-318
remove_camera_cap(m) ==
    /\ mgr[m].pc = "cap"
    /\ mgr' = [mgr EXCEPT ![m].pc = "del"]
    /\ cap' = IF mgr[m].camera = StreamObj THEN "none" ELSE cap
    /\ UNCHANGED <<cameras, created, removed, balance, connected, running, frame,
                   run, stopPc, consecFails, consecRaises, phase, cbVars, attempt, stopped,
                   otherThanCamMgr>>

\* remove_camera, lines 321-328, and 332-336 when the del raises KeyError
remove_camera_del(m) ==
    /\ mgr[m].pc = "del"
    /\ IF mgr[m].camera_id \in DOMAIN cameras
       THEN /\ cameras' = Drop(cameras, mgr[m].camera_id)
            /\ mgr' = [mgr EXCEPT ![m] = Return(m, "True")]
            /\ removed' = removed \cup {mgr[m].camera}
            /\ balance' = [balance EXCEPT ![mgr[m].camera_id] = @ - 1]
       ELSE /\ mgr' = [mgr EXCEPT ![m] = Return(m, "False")]
            /\ UNCHANGED <<cameras, removed, balance>>
    /\ UNCHANGED <<created, otherThanMgr>>

\* the calls of add_camera and remove_camera
NextRegistry ==
    \/ \E m \in DOMAIN mgr, id \in CameraIds : add_camera_check(m, id)
    \/ \E m \in DOMAIN mgr : add_camera_store(m)
    \/ \E m \in DOMAIN mgr, id \in CameraIds : remove_camera_absent(m, id)
    \/ \E m \in DOMAIN mgr, id \in CameraIds : remove_camera_check(m, id)
    \/ \E m \in DOMAIN mgr : remove_camera_stop(m)
    \/ \E m \in DOMAIN mgr : remove_camera_callbacks(m)
    \/ \E m \in DOMAIN mgr : remove_camera_cap(m)
    \/ \E m \in DOMAIN mgr : remove_camera_del(m)

\* the stream is in the registry
Registered == IdsOf(StreamObj) # {}

\* start_camera, lines 340-342, on the stream
start_camera(outcome) ==
    /\ Registered
    /\ start(outcome)

\* get_camera, line 362, and add_callback on the stream
get_camera_add_callback(cb) ==
    /\ Registered
    /\ add_callback(cb)

\* stop_all, lines 353-354: the stop() of the stream begins
stop_all ==
    /\ Registered
    /\ stop_begin

\* _run, lines 169, 207-217: self.cap is None when the loop comes to read
run_cap_is_none ==
    /\ cap = "none"
    /\ run_read_raises

\* the sources and callbacks of the runs with a manager: the source opens
\* or not, and an opened source delivers every frame
MgrConnectOutcomes == {"ok", "open_fails"}
MgrCallbackIds == {"cb1"}

\* the manager used by one thread, with the stream and its capture thread
NextMgr ==
    \/ NextRegistry
    \/ \E outcome \in MgrConnectOutcomes : start_camera(outcome)
    \/ \E cb \in MgrCallbackIds : get_camera_add_callback(cb)
    \/ stop_all
    \/ stop_joined
    \/ stop_join_timeout
    \/ stop_release
    \/ run_exit
    \/ run_opened
    \/ run_wait
    \/ run_give_up
    \/ run_reconnect_begin
    \/ \E outcome \in MgrConnectOutcomes : run_reconnect(outcome)
    \/ run_closed
    \/ run_read_ok(FALSE, {}, {})
    \/ run_cap_is_none

(***************************************************************************)
(* ObjectDetector (core/detection.py).  The YOLO model is the environment: *)
(* a call of it either raises or returns the boxes of the scene whose      *)
(* confidence reaches the threshold it was given.                          *)
(***************************************************************************)
\* ObjectDetector.__init__, line 72: the default conf_threshold, in percent
ConfThreshold == 50

\* the frame arguments of detect: None, an array of size 0, an image
FrameArgs == {"none", "empty", "image"}

\* the classes arguments of detect; {} stands for None and for the empty list,
\* which line 147 treats alike
ClassesArgs == {{}, {"person"}, {"car"}, {"dog"}}

\* conf=None
NoConf == -1

\* the conf arguments of detect, in percent
ConfArgs == {NoConf, 20, 80}

\* no detect call was made
NoDetectCall ==
    [path |-> "none", frame |-> "none", classes |-> {}, conf |-> NoConf,
     ret |-> <<>>, raised |-> FALSE]

\* lines 80-94: self.model is None when YOLO is unavailable or loading failed
InitObj(loaded) ==
    /\ model = IF loaded THEN "loaded" ELSE "none"
    /\ detect_call = NoDetectCall

\* line 124: frame is None or frame.size == 0 or self.model is None
DetectGuard(frame_arg) == frame_arg \in {"none", "empty"} \/ model = "none"

\* line 131: the threshold passed to the model
Confidence(conf) == IF conf # NoConf THEN conf ELSE ConfThreshold

\* lines 134-174: the boxes the model returns for the scene, less those that
\* line 147 filters out
Detections(scene, classes, conf) ==
    LET Kept(d) == /\ d.confidence >= Confidence(conf)
                   /\ ~(classes # {} /\ d.class_name \notin classes)
    IN SelectSeq(scene, Kept)

\* lines 124-125: return []
detect_guard(frame_arg, classes, conf) ==
    /\ DetectGuard(frame_arg)
    /\ detect_call' = [path |-> "guard", frame |-> frame_arg, classes |-> classes,
                       conf |-> conf, ret |-> <<>>, raised |-> FALSE]
    /\ UNCHANGED <<model, otherThanObj>>

\* lines 127-174: the model ran; return detections
detect_ok(frame_arg, classes, conf, scene) ==
    /\ ~DetectGuard(frame_arg)
    /\ detect_call' = [path |-> "ok", frame |-> frame_arg, classes |-> classes,
                       conf |-> conf, ret |-> Detections(scene, classes, conf),
                       raised |-> FALSE]
    /\ UNCHANGED <<model, otherThanObj>>

\* lines 176-178: the model (or the handling of its result) raised; the error
\* is logged and [] is returned
detect_except(frame_arg, classes, conf) ==
    /\ ~DetectGuard(frame_arg)
    /\ detect_call' = [path |-> "except", frame |-> frame_arg, classes |-> classes,
                       conf |-> conf, ret |-> <<>>, raised |-> FALSE]
    /\ UNCHANGED <<model, otherThanObj>>

NextObj ==
    \/ \E f \in FrameArgs, cl \in ClassesArgs, c \in ConfArgs : detect_guard(f, cl, c)
    \/ \E f \in FrameArgs, cl \in ClassesArgs, c \in ConfArgs, s \in DetectionInputs :
           detect_ok(f, cl, c, s)
    \/ \E f \in FrameArgs, cl \in ClassesArgs, c \in ConfArgs : detect_except(f, cl, c)

(***************************************************************************)
(* RealtimeSession.set_config and the inference of a frame in _infer_loop  *)
(* (api/realtime_detection.py).  set_config runs in a request thread, the  *)
(* inference in the session's thread; neither takes a lock, so their       *)
(* attribute reads and writes interleave.                                  *)
(***************************************************************************)
\* the classes of a configure request; {} stands for the empty list
ConfigClasses == {{"person"}, {"dog"}}

\* the confidences of a configure request, in percent
ConfigConfs == {2, 80}

\* the configure requests: a field that is not given is None
ConfigRequests ==
    [classes_given : BOOLEAN, classes : ConfigClasses,
     conf_given : BOOLEAN, conf : ConfigConfs]

\* line 309: float(np.clip(conf, 0.05, 0.99))
Clip(conf) == IF conf < 5 THEN 5 ELSE IF conf > 99 THEN 99 ELSE conf

IdleConfig == [pc |-> "idle", classes_given |-> FALSE, classes |-> {},
               conf_given |-> FALSE, conf |-> 0]

IdleInfer == [pc |-> "idle", scene |-> <<>>, classes |-> {}, conf |-> 0,
              begin_classes |-> {}, begin_conf |-> 0, quiet |-> FALSE]

\* RealtimeSession.__init__, lines 261-262, and YoloDetector.__init__, line 73,
\* for a session started without classes and with the default confidence
InitCfg ==
    /\ sess_classes = {}
    /\ sess_conf = 50
    /\ yolo_conf = 50
    /\ setc = IdleConfig
    /\ inf = IdleInfer
    /\ annotated = <<>>
    /\ configs = 0

\* set_config is called (line 304)
set_config_call(req) ==
    /\ setc.pc = "idle"
    /\ configs < MaxConfigs
    /\ configs' = configs + 1
    /\ setc' = [pc |-> "classes", classes_given |-> req.classes_given,
                classes |-> req.classes, conf_given |-> req.conf_given,
                conf |-> req.conf]
    /\ UNCHANGED <<sess_classes, sess_conf, yolo_conf, inf, annotated, otherThanCfg>>

\* lines 305-306
set_config_classes ==
    /\ setc.pc = "classes"
    /\ sess_classes' = IF setc.classes_given THEN setc.classes ELSE sess_classes
    /\ setc' = [setc EXCEPT !.pc = IF setc.conf_given THEN "conf" ELSE "idle"]
    /\ UNCHANGED <<sess_conf, yolo_conf, inf, annotated, configs, otherThanCfg>>

\* line 309
set_config_conf ==
    /\ setc.pc = "conf"
    /\ sess_conf' = Clip(setc.conf)
    /\ setc' = [setc EXCEPT !.pc = "yolo_conf"]
    /\ UNCHANGED <<sess_classes, yolo_conf, inf, annotated, configs, otherThanCfg>>

\* line 310
set_config_yolo_conf ==
    /\ setc.pc = "yolo_conf"
    /\ yolo_conf' = sess_conf
    /\ setc' = [setc EXCEPT !.pc = "idle"]
    /\ UNCHANGED <<sess_classes, sess_conf, inf, annotated, configs, otherThanCfg>>

\* line 321: the arguments of predict are evaluated for a frame read from the
\* camera; scene stands for the boxes the frame holds
infer_predict_args(scene) ==
    /\ inf.pc = "idle"
    /\ inf' = [pc |-> "conf", scene |-> scene, classes |-> sess_classes, conf |-> 0,
               begin_classes |-> sess_classes, begin_conf |-> yolo_conf,
               quiet |-> setc.pc = "idle"]
    /\ UNCHANGED <<sess_classes, sess_conf, yolo_conf, setc, annotated, configs,
                   otherThanCfg>>

\* YoloDetector.predict, lines 94-97: self.conf is read for the model call
predict_conf ==
    /\ inf.pc = "conf"
    /\ inf' = [inf EXCEPT !.pc = "model", !.conf = yolo_conf]
    /\ UNCHANGED <<sess_classes, sess_conf, yolo_conf, setc, annotated, configs,
                   otherThanCfg>>

\* the boxes the model returns for a threshold
AboveConf(scene, conf) ==
    LET Above(d) == d.confidence >= conf IN SelectSeq(scene, Above)

\* the boxes of the given classes
OfClasses(boxes, classes) ==
    LET Keep(d) == d.class_name \in classes IN SelectSeq(boxes, Keep)

\* a variant of lines 102-111 that keeps the boxes of the classes, none included
PredictKeepIdx(scene, classes, conf) ==
    LET r == AboveConf(scene, conf)
    IN IF classes # {} THEN OfClasses(r, classes) ELSE r

\* YoloDetector.predict, lines 94-112: r is indexed by keep_idx only when
\* classes is not empty and keep_idx is not empty
Predict(scene, classes, conf) ==
    LET r == AboveConf(scene, conf)
        keep_idx == OfClasses(r, classes)
    IN IF classes # {} /\ keep_idx # <<>> THEN keep_idx ELSE r

\* lines 321-344: the model ran, the result is drawn on the frame and the
\* frame is published
infer_publish ==
    /\ inf.pc = "model"
    /\ annotated' = Predict(inf.scene, inf.classes, inf.conf)
    /\ inf' = [inf EXCEPT !.pc = "idle"]
    /\ UNCHANGED <<sess_classes, sess_conf, yolo_conf, setc, configs, otherThanCfg>>

\* lines 323-325: the model raised; the frame is published without boxes
infer_predict_raises ==
    /\ inf.pc = "model"
    /\ annotated' = <<>>
    /\ inf' = [inf EXCEPT !.pc = "failed"]
    /\ UNCHANGED <<sess_classes, sess_conf, yolo_conf, setc, configs, otherThanCfg>>

\* line 314: the next turn of the loop after an inference that raised
infer_next ==
    /\ inf.pc = "failed"
    /\ inf' = [inf EXCEPT !.pc = "idle"]
    /\ UNCHANGED <<sess_classes, sess_conf, yolo_conf, setc, annotated, configs,
                   otherThanCfg>>

NextCfg ==
    \/ \E req \in ConfigRequests : set_config_call(req)
    \/ set_config_classes
    \/ set_config_conf
    \/ set_config_yolo_conf
    \/ \E scene \in DetectionInputs : infer_predict_args(scene)
    \/ predict_conf
    \/ infer_publish
    \/ infer_predict_raises
    \/ infer_next

(***************************************************************************)
(* The capture threads of one CameraStream (core/camera.py).  stop() waits *)
(* for the thread at most 5 s (line 247) and start() creates a new thread  *)
(* whenever running is False (lines 224-233), so a thread that outlived    *)
(* its stop() and the thread of a later start() can both be in _run.  Each *)
(* thread is followed through the statements that touch shared state: the  *)
(* test of running (131), the test of the handle (135), _connect (157),    *)
(* the read (174) and the delivery of the frame read (205-206).  A frame   *)
(* is the number of the read that returned it.  A thread is at "connect"   *)
(* from the test of line 135 to the end of lines 139-164: there it sleeps  *)
(* 0.5 s, reconnect_interval (5 s) or twice that (10 s, line 152), or is   *)
(* inside _connect, so it can stay there longer than the join waits.       *)
(***************************************************************************)
\* the threads that start() creates, in creation order
CaptureThreads == 1..MaxThreads

NotAlive == [pc |-> "none", frame |-> 0]

InitThreads ==
    /\ thr_running = FALSE
    /\ thr_cap = "none"
    /\ thr_thread = 0
    /\ thr = [t \in CaptureThreads |-> NotAlive]
    /\ thr_stop = "idle"
    /\ captured = 0
    /\ received = <<>>

\* start(), lines 224-236, called when no stop() call is in progress; ok is
\* the result of _connect.  A thread of an earlier start() that is not in its
\* waits has seen running False and ended before the caller gets here.
threads_start(ok) ==
    /\ thr_stop = "idle"
    /\ ~thr_running
    /\ thr_thread < MaxThreads
    /\ \A t \in CaptureThreads : thr[t].pc \in {"none", "connect"}
    /\ thr_cap' = IF ok THEN "open" ELSE "closed"
    /\ IF ok
       THEN /\ thr_running' = TRUE
            /\ thr_thread' = thr_thread + 1
            /\ thr' = [thr EXCEPT ![thr_thread + 1] = [pc |-> "top", frame |-> 0]]
       ELSE UNCHANGED <<thr_running, thr_thread, thr>>
    /\ UNCHANGED <<thr_stop, captured, received, otherThanThreads>>

\* _run, lines 131-135 and 169: the tests of running and of the handle
threads_run_test(t) ==
    /\ thr[t].pc = "top"
    /\ thr' = [thr EXCEPT ![t].pc = IF ~thr_running THEN "none"
                                    ELSE IF thr_cap # "open" THEN "connect"
                                    ELSE "read"]
    /\ UNCHANGED <<thr_running, thr_cap, thr_thread, thr_stop, captured, received,
                   otherThanThreads>>

\* _run, lines 139-164: the waits and the reconnection attempt
threads_run_connect(t, ok) ==
    /\ thr[t].pc = "connect"
    /\ thr_cap' = IF ok THEN "open" ELSE "closed"
    /\ thr' = [thr EXCEPT ![t].pc = "top"]
    /\ UNCHANGED <<thr_running, thr_thread, thr_stop, captured, received,
                   otherThanThreads>>

\* _run, line 174: the read returns the next frame of the source
threads_run_read(t) ==
    /\ thr[t].pc = "read"
    /\ thr_cap = "open"
    /\ captured < MaxCaptured
    /\ captured' = captured + 1
    /\ thr' = [thr EXCEPT ![t] = [pc |-> "deliver", frame |-> captured + 1]]
    /\ UNCHANGED <<thr_running, thr_cap, thr_thread, thr_stop, received,
                   otherThanThreads>>

\* _run, lines 169-197 and 207-217: the handle is found closed, or the read
\* returns no frame or raises; release says that error_count has passed its
\* limit with this failure, so that the handle is released (191, 215)
threads_run_read_fails(t, release) ==
    /\ thr[t].pc = "read"
    /\ thr_cap' = IF release THEN Released(thr_cap) ELSE thr_cap
    /\ thr' = [thr EXCEPT ![t].pc = "top"]
    /\ UNCHANGED <<thr_running, thr_thread, thr_stop, captured, received,
                   otherThanThreads>>

\* _run, lines 205-206, and _process_frame, lines 114-116: the subscriber is
\* called with the frame that this thread read
threads_run_process_frame(t) ==
    /\ thr[t].pc = "deliver"
    /\ received' = Append(received, thr[t].frame)
    /\ thr' = [thr EXCEPT ![t] = [pc |-> "top", frame |-> 0]]
    /\ UNCHANGED <<thr_running, thr_cap, thr_thread, thr_stop, captured,
                   otherThanThreads>>

\* stop(), lines 240-244
threads_stop_begin ==
    /\ thr_stop = "idle"
    /\ thr_running
    /\ thr_running' = FALSE
    /\ thr_stop' = "join"
    /\ UNCHANGED <<thr_cap, thr_thread, thr, captured, received, otherThanThreads>>

\* stop(), lines 246-247: the join returns because self.thread has ended
\* (timeout FALSE) or because 5 s have passed while it is in its waits
threads_stop_join(timeout) ==
    /\ thr_stop = "join"
    /\ thr[thr_thread].pc = IF timeout THEN "connect" ELSE "none"
    /\ thr_stop' = "release"
    /\ UNCHANGED <<thr_running, thr_cap, thr_thread, thr, captured, received,
                   otherThanThreads>>

\* stop(), lines 249-252
threads_stop_release ==
    /\ thr_stop = "release"
    /\ thr_cap' = Released(thr_cap)
    /\ thr_stop' = "idle"
    /\ UNCHANGED <<thr_running, thr_thread, thr, captured, received,
                   otherThanThreads>>

NextThreads ==
    \/ \E ok \in BOOLEAN : threads_start(ok)
    \/ \E t \in CaptureThreads : threads_run_test(t)
    \/ \E t \in CaptureThreads, ok \in BOOLEAN : threads_run_connect(t, ok)
    \/ \E t \in CaptureThreads : threads_run_read(t)
    \/ \E t \in CaptureThreads, release \in BOOLEAN : threads_run_read_fails(t, release)
    \/ \E t \in CaptureThreads : threads_run_process_frame(t)
    \/ threads_stop_begin
    \/ \E timeout \in BOOLEAN : threads_stop_join(timeout)
    \/ threads_stop_release

(***************************************************************************)
(* The timing of the reconnection attempts of _run (core/camera.py, lines  *)
(* 131-164), in seconds.  Instead of the clock the model keeps the time    *)
(* elapsed since last_reconnect_time was set and since the last _connect   *)
(* of the loop was called; both stop counting at MaxElapsed.               *)
(***************************************************************************)
\* CameraConfig.reconnect_interval, line 18
ReconnectInterval == 5

\* the time a _connect call takes
ConnectDurations == {0, 3}

\* t seconds later
Later(elapsed, t) == Min(elapsed + t, MaxElapsed)

\* the loop of a thread that start() has just created: the handle is open,
\* last_reconnect_time is 0 (line 125) and no attempt was made
InitBackoff ==
    /\ bo = [pc |-> "streaming", reconnect_attempts |-> 0, since_last |-> MaxElapsed]
    /\ since_attempt = MaxElapsed
    /\ failed_row = 0
    /\ made = 0
    /\ lastmade = [gap |-> MaxElapsed, failed_row |-> 0]

\* lines 166-206, 219-220: frames are read for a second
streaming_second ==
    /\ bo.pc = "streaming"
    /\ bo' = [bo EXCEPT !.since_last = Later(@, 1)]
    /\ since_attempt' = Later(since_attempt, 1)
    /\ UNCHANGED <<failed_row, made, lastmade, otherThanBackoff>>

\* lines 188-194: the handle is released after the failed reads, sleep(1)
streaming_release ==
    /\ bo.pc = "streaming"
    /\ bo' = [bo EXCEPT !.pc = "backoff", !.since_last = Later(@, 1)]
    /\ since_attempt' = Later(since_attempt, 1)
    /\ UNCHANGED <<failed_row, made, lastmade, otherThanBackoff>>

\* lines 139-141: the interval has not elapsed; two turns of the 0.5 s sleep
backoff_wait ==
    /\ bo.pc = "backoff"
    /\ bo.since_last < ReconnectInterval
    /\ bo' = [bo EXCEPT !.since_last = Later(@, 1)]
    /\ since_attempt' = Later(since_attempt, 1)
    /\ UNCHANGED <<failed_row, made, lastmade, otherThanBackoff>>

\* lines 143-154: the attempt counter has passed max_reconnect_attempts; the
\* thread sleeps twice the interval and clears the counter
backoff_long_wait ==
    /\ bo.pc = "backoff"
    /\ bo.since_last >= ReconnectInterval
    /\ bo.reconnect_attempts + 1 > MaxReconnectAttempts
    /\ bo' = [bo EXCEPT !.reconnect_attempts = 0,
                        !.since_last = Later(0, 2 * ReconnectInterval)]
    /\ since_attempt' = Later(since_attempt, 2 * ReconnectInterval)
    /\ UNCHANGED <<failed_row, made, lastmade, otherThanBackoff>>

\* lines 143-164: an attempt is made; _connect takes d seconds; after a
\* failure the thread sleeps the interval, after a success it clears the
\* counter and reads frames
backoff_connect(ok, d) ==
    /\ bo.pc = "backoff"
    /\ bo.since_last >= ReconnectInterval
    /\ bo.reconnect_attempts + 1 <= MaxReconnectAttempts
    /\ made < MaxAttemptsMade
    /\ made' = made + 1
    /\ lastmade' = [gap |-> since_attempt, failed_row |-> failed_row]
    /\ IF ok
       THEN /\ bo' = [pc |-> "streaming", reconnect_attempts |-> 0,
                      since_last |-> Later(0, d)]
            /\ since_attempt' = Later(0, d)
            /\ failed_row' = 0
       ELSE /\ bo' = [pc |-> "backoff",
                      reconnect_attempts |-> bo.reconnect_attempts + 1,
                      since_last |-> Later(0, d + ReconnectInterval)]
            /\ since_attempt' = Later(0, d + ReconnectInterval)
            /\ failed_row' = Min(failed_row + 1, MaxAttemptsMade)
    /\ UNCHANGED otherThanBackoff

NextBackoff ==
    \/ streaming_second
    \/ streaming_release
    \/ backoff_wait
    \/ backoff_long_wait
    \/ \E ok \in BOOLEAN, d \in ConnectDurations : backoff_connect(ok, d)

(***************************************************************************)
(* EventManager (core/recording.py), the owner of the VideoRecorder.       *)
(* process_event is called by one thread with the events of the detector.  *)
(***************************************************************************)
\* the thread that calls process_event, and with it start_recording
EventCaller == "k1"

\* the 'type' of an event is the class name of its detection (detection.py
\* line 338)
EventClasses == {"person", "car"}

\* models.py lines 61-67: the values of EventType
EventTypeValues == {"motion", "person", "vehicle", "object", "alert", "system"}

\* event.get('video_path', '') and event.get('thumbnail_path', '') of an
\* event that holds neither key
NoPath == "none"

IdleEvent == [pc |-> "idle", cam |-> "none", type |-> "none", before |-> 0]

\* the variables of the components other than the recorder and the manager
\* of events
otherThanRecEvt ==
    <<detVars, camVars, liveVars, mgrVars, objVars, cfgVars, threadVars,
      backoffVars, handVars, routeVars, nameVars>>

\* EventManager.__init__, lines 219-221
InitDb(db) == db_session = db

InitEvt ==
    /\ pe = IdleEvent
    /\ saved = <<>>

\* lines 250-252: process_event enters start_recording with the event
process_event_call(c, type) ==
    /\ pe.pc = "idle"
    /\ srPc[EventCaller] = "idle"
    /\ calls < MaxEvents
    /\ srPc' = [srPc EXCEPT ![EventCaller] = "l88"]
    /\ srCam' = [srCam EXCEPT ![EventCaller] = c]
    /\ calls' = calls + 1
    /\ pe' = [pc |-> "recorder", cam |-> c, type |-> type, before |-> started]
    /\ UNCHANGED <<frame_buffer, recording, recording_threads, recThread, afPc,
                   appended, dropped, started, failedCams,
                   db_session, saved, otherThanRecEvt>>

\* lines 254-262: start_recording has returned; the callbacks are called,
\* their exceptions swallowed, and the event is saved when there is a session
process_event_callbacks ==
    /\ pe.pc = "recorder"
    /\ srPc[EventCaller] = "idle"
    /\ pe' = IF db_session THEN [pe EXCEPT !.pc = "save"] ELSE IdleEvent
    /\ UNCHANGED <<db_session, saved, otherThanEvt>>

\* lines 282-290: the row is built from the event alone.  job is the
\* recording thread the call started, 0 when the trigger was dropped, and
\* running tells whether that thread is alive when the row is committed.
EventRow(e, job) ==
    <<[type |-> e.type, cam |-> e.cam, job |-> job,
       video_path |-> NoPath, image_path |-> NoPath,
       running |-> job \in DOMAIN recThread]>>

\* lines 277-301: EventType(...) raises ValueError for a value that is not
\* in the enumeration; add and commit can fail; both end in the rollback
save_event_to_db(commit_ok) ==
    /\ pe.pc = "save"
    /\ LET job == IF started > pe.before THEN started ELSE 0
       IN saved' = IF pe.type \in EventTypeValues /\ commit_ok
                   THEN saved \o EventRow(pe, job)
                   ELSE saved
    /\ pe' = IdleEvent
    /\ UNCHANGED <<db_session, otherThanEvt>>

NextEvt ==
    \/ \E c \in Cameras : add_frame_append(c)
    \/ \E c \in Cameras : add_frame_limit(c)
    \/ \E c \in Cameras, type \in EventClasses : process_event_call(c, type)
    \/ start_recording_check(EventCaller)
    \/ start_recording_buffer(EventCaller)
    \/ start_recording_start(EventCaller)
    \/ \E t \in ThreadIds : record_event_snapshot(t)
    \/ \E t \in ThreadIds : record_event_post(t)
    \/ \E t \in ThreadIds : record_event_finalize(t)
    \/ \E t \in ThreadIds : record_event_finally(t)
    \/ process_event_callbacks
    \/ \E commit_ok \in BOOLEAN : save_event_to_db(commit_ok)

(***************************************************************************)
(* The hand-off cells of a live session (api/realtime_detection.py): the   *)
(* queue between the capture thread and the inference thread, and          *)
(* last_jpeg between the inference thread and a viewer.  A frame is the    *)
(* number of its retrieval.                                                *)
(***************************************************************************)
\* line 140: queue.Queue(maxsize=1)
QueueMaxsize == 1

\* last_jpeg is None
NoJpeg == [frame |-> 0, out |-> "none"]

\* the inference thread between two frames
AtRead == [pc |-> "read", frame |-> 0, out |-> "none"]

InitHandoff ==
    /\ hq = <<>>
    /\ hloop = [pc |-> "grab", frame |-> 0]
    /\ retrieved = 0
    /\ hinfer = AtRead
    /\ hreceived = <<>>
    /\ frame_lock = "free"
    /\ hjpeg = NoJpeg
    /\ published = NoJpeg
    /\ detector_raised = {}
    /\ turn_end = [f \in 1..MaxRetrieved |-> "none"]
    /\ viewer = [pc |-> "idle", data |-> NoJpeg, latest |-> NoJpeg]

\* Queue.put_nowait: a full queue raises queue.Full and is left as it is
PutNowait(queue, x) ==
    IF Len(queue) < QueueMaxsize THEN Append(queue, x) ELSE queue

\* a get that leaves the frame in the queue
KeepOldest(queue) == queue
\* Queue.get_nowait and Queue.get: the queue without its oldest frame; an
\* empty queue raises queue.Empty and is left as it is
GetNowait(queue) == IF queue = <<>> THEN queue ELSE Tail(queue)

\* lines 178-185: grab and retrieve give a frame
handoff_retrieve ==
    /\ hloop.pc = "grab"
    /\ retrieved < MaxRetrieved
    /\ retrieved' = retrieved + 1
    /\ hloop' = [pc |-> "empty", frame |-> retrieved + 1]
    /\ UNCHANGED <<hq, hinfer, hreceived, frame_lock, hjpeg, published, detector_raised,
                   turn_end, viewer,
                   otherThanHandoff>>

\* lines 178-185: grab or retrieve gives no frame; the loop goes on
handoff_retrieve_none ==
    /\ hloop.pc = "grab"
    /\ UNCHANGED vars

\* line 188: if not self.q.empty()
handoff_empty ==
    /\ hloop.pc = "empty"
    /\ hloop' = [hloop EXCEPT !.pc = IF hq = <<>> THEN "put" ELSE "get"]
    /\ UNCHANGED <<hq, retrieved, hinfer, hreceived, frame_lock, hjpeg, published,
                   detector_raised, turn_end, viewer, otherThanHandoff>>

\* lines 189-192: the frame in the queue is dropped
handoff_get_nowait ==
    /\ hloop.pc = "get"
    /\ hq' = GetNowait(hq)
    /\ hloop' = [hloop EXCEPT !.pc = "put"]
    /\ UNCHANGED <<retrieved, hinfer, hreceived, frame_lock, hjpeg, published,
                   detector_raised, turn_end, viewer, otherThanHandoff>>

\* lines 193-196: the new frame is put; queue.Full is swallowed
handoff_put_nowait ==
    /\ hloop.pc = "put"
    /\ hq' = PutNowait(hq, hloop.frame)
    /\ hloop' = [pc |-> "grab", frame |-> 0]
    /\ UNCHANGED <<retrieved, hinfer, hreceived, frame_lock, hjpeg, published,
                   detector_raised, turn_end, viewer, otherThanHandoff>>

\* lines 315-317 with RTSPCamera.read, lines 204-208: q.get returns the
\* oldest frame of the queue, or times out on an empty queue
handoff_read ==
    /\ hinfer.pc = "read"
    /\ IF hq = <<>>
       THEN UNCHANGED <<hq, hinfer, hreceived>>
       ELSE /\ hq' = GetNowait(hq)
            /\ hinfer' = [pc |-> "infer", frame |-> Head(hq), out |-> "none"]
            /\ hreceived' = Append(hreceived, Head(hq))
    /\ UNCHANGED <<hloop, retrieved, frame_lock, hjpeg, published, detector_raised,
                   turn_end, viewer, otherThanHandoff>>

\* an inference loop whose thread ends when the detector raises
handoff_predict_unguarded(raises) ==
    /\ hinfer.pc = "infer"
    /\ hinfer' = IF raises THEN [pc |-> "none", frame |-> 0, out |-> "none"]
                 ELSE [hinfer EXCEPT !.pc = "encode", !.out = "annotated"]
    /\ detector_raised' = IF raises THEN detector_raised \cup {hinfer.frame}
                          ELSE detector_raised
    /\ UNCHANGED <<hq, hloop, retrieved, hreceived, frame_lock, hjpeg, published,
                   turn_end, viewer, otherThanHandoff>>

\* lines 320-325: predict and draw give the annotated frame; when either
\* raises, out is the frame as it was captured
handoff_predict(raises) ==
    /\ hinfer.pc = "infer"
    /\ hinfer' = [hinfer EXCEPT !.pc = "encode",
                                !.out = IF raises THEN "plain" ELSE "annotated"]
    /\ detector_raised' = IF raises THEN detector_raised \cup {hinfer.frame}
                          ELSE detector_raised
    /\ UNCHANGED <<hq, hloop, retrieved, hreceived, frame_lock, hjpeg, published,
                   turn_end, viewer, otherThanHandoff>>

\* lines 327-338 and 341-342: out is resized and encoded; without a JPEG
\* the loop goes on with the next frame
handoff_encode(encoded) ==
    /\ hinfer.pc = "encode"
    /\ hinfer' = IF encoded THEN [hinfer EXCEPT !.pc = "lock"] ELSE AtRead
    /\ turn_end' = IF encoded THEN turn_end
                  ELSE [turn_end EXCEPT ![hinfer.frame] = "unencoded"]
    /\ UNCHANGED <<hq, hloop, retrieved, hreceived, frame_lock, hjpeg, published,
                   detector_raised, viewer, otherThanHandoff>>

\* line 339: with self.frame_lock
handoff_store_acquire ==
    /\ hinfer.pc = "lock"
    /\ frame_lock = "free"
    /\ frame_lock' = "infer"
    /\ hinfer' = [hinfer EXCEPT !.pc = "store"]
    /\ UNCHANGED <<hq, hloop, retrieved, hreceived, hjpeg, published,
                   detector_raised, turn_end, viewer, otherThanHandoff>>

\* line 340 and the end of the with block
handoff_store ==
    /\ hinfer.pc = "store"
    /\ hjpeg' = [frame |-> hinfer.frame, out |-> hinfer.out]
    /\ published' = [frame |-> hinfer.frame, out |-> hinfer.out]
    /\ turn_end' = [turn_end EXCEPT ![hinfer.frame] = hinfer.out]
    /\ frame_lock' = "free"
    /\ hinfer' = AtRead
    /\ UNCHANGED <<hq, hloop, retrieved, hreceived, detector_raised, viewer,
                   otherThanHandoff>>

\* pump_ws, line 365: with self.frame_lock
pump_ws_acquire ==
    /\ viewer.pc = "idle"
    /\ frame_lock = "free"
    /\ frame_lock' = "viewer"
    /\ viewer' = [viewer EXCEPT !.pc = "copy"]
    /\ UNCHANGED <<hq, hloop, retrieved, hinfer, hreceived, hjpeg, published,
                   detector_raised, turn_end, otherThanHandoff>>

\* line 366 and the end of the with block: data = self.last_jpeg
pump_ws_copy ==
    /\ viewer.pc = "copy"
    /\ viewer' = [pc |-> "send", data |-> hjpeg, latest |-> published]
    /\ frame_lock' = "free"
    /\ UNCHANGED <<hq, hloop, retrieved, hinfer, hreceived, hjpeg, published,
                   detector_raised, turn_end, otherThanHandoff>>

\* lines 367-370: the data is sent when there is some; the viewer sleeps
pump_ws_send ==
    /\ viewer.pc = "send"
    /\ viewer' = [viewer EXCEPT !.pc = "idle"]
    /\ UNCHANGED <<hq, hloop, retrieved, hinfer, hreceived, frame_lock, hjpeg,
                   published, detector_raised, turn_end, otherThanHandoff>>

NextHandoff ==
    \/ handoff_retrieve
    \/ handoff_retrieve_none
    \/ handoff_empty
    \/ handoff_get_nowait
    \/ handoff_put_nowait
    \/ handoff_read
    \/ \E raises \in BOOLEAN : handoff_predict(raises)
    \/ \E encoded \in BOOLEAN : handoff_encode(encoded)
    \/ handoff_store_acquire
    \/ handoff_store
    \/ pump_ws_acquire
    \/ pump_ws_copy
    \/ pump_ws_send

(***************************************************************************)
(* The session routes (api/realtime_detection.py, lines 484-545).  The     *)
(* handlers are plain functions, which the framework runs in the threads   *)
(* of a pool: the statements of two requests interleave.  A session object *)
(* is followed through its active flag and the state of its threads; the   *)
(* statements of RealtimeSession.start and stop are those of the session   *)
(* component.                                                              *)
(***************************************************************************)
\* the threads of the pool that run route handlers
RequestThreads == {"r1", "r2"}

\* f"{camera_id}_{current_user.id}" for one camera and one user
SessionKeys == {"cam_1"}

IdleRequest == [pc |-> "idle", key |-> "none", sess |-> 0]

NoAnswer == [route |-> "none", sess |-> 0, status |-> "none"]

InitRoutes ==
    /\ realtime_sessions = EmptyDict
    /\ objs = <<>>
    /\ rq = [r \in RequestThreads |-> IdleRequest]
    /\ requests = 0
    /\ answer = [r \in RequestThreads |-> NoAnswer]

\* a request for /start/{camera_id} enters its handler (line 495)
route_start_call(r, key) ==
    /\ rq[r].pc = "idle"
    /\ requests < MaxRequests
    /\ requests' = requests + 1
    /\ rq' = [rq EXCEPT ![r] = [pc |-> "start_check", key |-> key, sess |-> 0]]
    /\ UNCHANGED <<realtime_sessions, objs, answer, otherThanRoutes>>

\* lines 496-497: if session_key in realtime_sessions
route_start_check(r) ==
    /\ rq[r].pc = "start_check"
    /\ IF rq[r].key \in DOMAIN realtime_sessions
       THEN /\ rq' = [rq EXCEPT ![r] = IdleRequest]
            /\ answer' = [answer EXCEPT ![r] =
                             [route |-> "start", sess |-> 0,
                              status |-> "already_running"]]
       ELSE /\ rq' = [rq EXCEPT ![r].pc = "start_store"]
            /\ UNCHANGED answer
    /\ UNCHANGED <<realtime_sessions, objs, requests, otherThanRoutes>>

\* lines 499-509: the camera, the detector and the session are built and the
\* session is stored under its key
route_start_store(r) ==
    /\ rq[r].pc = "start_store"
    /\ Len(objs) < MaxRequests
    /\ objs' = Append(objs, [key |-> rq[r].key, active |-> FALSE,
                             threads |-> "none"])
    /\ realtime_sessions' = Put(realtime_sessions, rq[r].key, Len(objs) + 1)
    /\ rq' = [rq EXCEPT ![r].pc = "start_start", ![r].sess = Len(objs) + 1]
    /\ UNCHANGED <<requests, answer, otherThanRoutes>>

\* lines 510-511 with RealtimeSession.start, lines 273-280, and
\* RTSPCamera.start, lines 163-169: active is set, then the source is
\* opened; when it cannot be, _open raises (line 161) and the exception
\* leaves the handler
route_start_start(r, opened) ==
    /\ rq[r].pc = "start_start"
    /\ objs' = [objs EXCEPT ![rq[r].sess] =
                   [@ EXCEPT !.active = TRUE,
                             !.threads = IF opened THEN "running" ELSE "none"]]
    /\ answer' = [answer EXCEPT ![r] =
                     [route |-> "start", sess |-> rq[r].sess,
                      status |-> IF opened THEN "started" ELSE "raised"]]
    /\ rq' = [rq EXCEPT ![r] = IdleRequest]
    /\ UNCHANGED <<realtime_sessions, requests, otherThanRoutes>>

\* a request for /stop/{session_id} enters its handler (line 514)
route_stop_call(r, key) ==
    /\ rq[r].pc = "idle"
    /\ requests < MaxRequests
    /\ requests' = requests + 1
    /\ rq' = [rq EXCEPT ![r] = [pc |-> "stop_check", key |-> key, sess |-> 0]]
    /\ UNCHANGED <<realtime_sessions, objs, answer, otherThanRoutes>>

\* lines 519-520: if session_id not in realtime_sessions
route_stop_check(r) ==
    /\ rq[r].pc = "stop_check"
    /\ IF rq[r].key \notin DOMAIN realtime_sessions
       THEN /\ rq' = [rq EXCEPT ![r] = IdleRequest]
            /\ answer' = [answer EXCEPT ![r] =
                             [route |-> "stop", sess |-> 0,
                              status |-> "not_found"]]
       ELSE /\ rq' = [rq EXCEPT ![r].pc = "stop_get"]
            /\ UNCHANGED answer
    /\ UNCHANGED <<realtime_sessions, objs, requests, otherThanRoutes>>

\* lines 524 and 543-545: sess = realtime_sessions[session_id]; a key that
\* was removed meanwhile raises KeyError, answered with status "error"
route_stop_get(r) ==
    /\ rq[r].pc = "stop_get"
    /\ IF rq[r].key \in DOMAIN realtime_sessions
       THEN /\ rq' = [rq EXCEPT ![r].pc = "stop_pop",
                                ![r].sess = realtime_sessions[rq[r].key]]
            /\ UNCHANGED answer
       ELSE /\ rq' = [rq EXCEPT ![r] = IdleRequest]
            /\ answer' = [answer EXCEPT ![r] =
                             [route |-> "stop", sess |-> 0, status |-> "error"]]
    /\ UNCHANGED <<realtime_sessions, objs, requests, otherThanRoutes>>

\* line 528: realtime_sessions.pop(session_id, None)
route_stop_pop(r) ==
    /\ rq[r].pc = "stop_pop"
    /\ realtime_sessions' = Drop(realtime_sessions, rq[r].key)
    /\ rq' = [rq EXCEPT ![r].pc = "stop_stop"]
    /\ UNCHANGED <<objs, requests, answer, otherThanRoutes>>

\* lines 531-541 with RealtimeSession.stop: the flag is cleared and the
\* threads are told to end
route_stop_stop(r) ==
    /\ rq[r].pc = "stop_stop"
    /\ objs' = [objs EXCEPT ![rq[r].sess] =
                   [@ EXCEPT !.active = FALSE, !.threads = "none"]]
    /\ answer' = [answer EXCEPT ![r] =
                     [route |-> "stop", sess |-> rq[r].sess,
                      status |-> "stopped"]]
    /\ rq' = [rq EXCEPT ![r] = IdleRequest]
    /\ UNCHANGED <<realtime_sessions, requests, otherThanRoutes>>

NextRoutes ==
    \/ \E r \in RequestThreads, key \in SessionKeys : route_start_call(r, key)
    \/ \E r \in RequestThreads : route_start_check(r)
    \/ \E r \in RequestThreads : route_start_store(r)
    \/ \E r \in RequestThreads, opened \in BOOLEAN : route_start_start(r, opened)
    \/ \E r \in RequestThreads, key \in SessionKeys : route_stop_call(r, key)
    \/ \E r \in RequestThreads : route_stop_check(r)
    \/ \E r \in RequestThreads : route_stop_get(r)
    \/ \E r \in RequestThreads : route_stop_pop(r)
    \/ \E r \in RequestThreads : route_stop_stop(r)

(***************************************************************************)
(* The cameras of a CameraManager feeding one VideoRecorder.  The manager  *)
(* keys its streams by camera_id (core/camera.py, lines 268-276); a stream *)
(* labels its frames with config.name (lines 107-112), and the recorder    *)
(* and the events of the detector are keyed by that name (recording.py     *)
(* lines 60 and 85, detection.py lines 314 and 342).  The calls of the     *)
(* recorder are taken whole here: their interleavings are those of the     *)
(* recorder component.                                                     *)
(***************************************************************************)
\* the names given to cameras
CameraNames == {"gate", "yard"}

NoTrigger == [camera_id |-> "none", result |-> "none", job_of |-> "none"]

InitNames ==
    /\ config_name = [id \in CameraIds |-> "none"]
    /\ name_buffer = EmptyDict
    /\ name_recording = EmptyDict
    /\ job_of = [n \in CameraNames |-> "none"]
    /\ last_trigger = NoTrigger

\* CameraManager.add_camera, lines 268-276: an id that is not registered is
\* given a stream with the name
names_add_camera(id, name) ==
    /\ config_name[id] = "none"
    /\ config_name' = [config_name EXCEPT ![id] = name]
    /\ UNCHANGED <<name_buffer, name_recording, job_of, last_trigger,
                   otherThanNames>>

\* camera.py line 108 and recording.py line 60: the key of the recorder's
\* state for the frames and the events of the camera registered as id
KeyByName(id) == config_name[id]

\* _process_frame, lines 107-116, with VideoRecorder.add_frame, lines 57-76
names_add_frame(id) ==
    /\ config_name[id] # "none"
    /\ LET key == KeyByName(id)
           old == IF key \in DOMAIN name_buffer THEN name_buffer[key] ELSE <<>>
           new == Append(old, id)
       IN /\ name_buffer' = Put(name_buffer, key,
                                IF OverCapacity(new) THEN Evict(new) ELSE new)
          /\ name_recording' = IF key \in DOMAIN name_buffer THEN name_recording
                               ELSE Put(name_recording, key, FALSE)
    /\ UNCHANGED <<config_name, job_of, last_trigger, otherThanNames>>

\* VideoRecorder.start_recording, lines 85-107, for an event of the camera
\* registered as id
names_start_recording(id) ==
    /\ config_name[id] # "none"
    /\ LET key == KeyByName(id)
       IN IF key \in DOMAIN name_recording /\ name_recording[key]
          THEN /\ last_trigger' = [camera_id |-> id, result |-> "dropped",
                                   job_of |-> job_of[key]]
               /\ UNCHANGED <<name_recording, job_of>>
          ELSE IF key \notin DOMAIN name_buffer \/ name_buffer[key] = <<>>
          THEN /\ last_trigger' = [camera_id |-> id, result |-> "no_frames",
                                   job_of |-> "none"]
               /\ UNCHANGED <<name_recording, job_of>>
          ELSE /\ name_recording' = Put(name_recording, key, TRUE)
               /\ job_of' = [job_of EXCEPT ![key] = id]
               /\ last_trigger' = [camera_id |-> id, result |-> "started",
                                   job_of |-> id]
    /\ UNCHANGED <<config_name, name_buffer, otherThanNames>>

\* _record_event, lines 201-203: the recording of a name ends
names_record_event_end(key) ==
    /\ key \in DOMAIN name_recording
    /\ name_recording[key]
    /\ name_recording' = [name_recording EXCEPT ![key] = FALSE]
    /\ job_of' = [job_of EXCEPT ![key] = "none"]
    /\ UNCHANGED <<config_name, name_buffer, last_trigger, otherThanNames>>

NextNames ==
    \/ \E id \in CameraIds, name \in CameraNames : names_add_camera(id, name)
    \/ \E id \in CameraIds : names_add_frame(id)
    \/ \E id \in CameraIds : names_start_recording(id)
    \/ \E key \in CameraNames : names_record_event_end(key)

\* the state after construction; frames are evaluated by one thread and the
\* manager is used by one thread
InitOthers ==
    /\ InitRec /\ InitCam /\ InitSess /\ InitCfg /\ InitThreads /\ InitBackoff
    /\ InitEvt /\ InitHandoff /\ InitRoutes /\ InitNames

Init ==
    InitOthers /\ InitDetVars({"d1"}) /\ InitMgr({"m1"}) /\ InitObj(TRUE)
    /\ InitDb(TRUE)

\* the detector alone, frames evaluated one at a time
SpecDet == Init /\ [][NextDet]_vars

\* two threads evaluate frames concurrently on one EventDetector
InitDetConc ==
    InitOthers /\ InitDetVars(DetThreads) /\ InitMgr({"m1"}) /\ InitObj(TRUE)
    /\ InitDb(TRUE)
SpecDetConc == InitDetConc /\ [][NextDet]_vars

\* the recorder alone
SpecRec == Init /\ [][NextRec]_vars

\* the camera stream alone
SpecCam == Init /\ [][NextCam]_vars

\* one live session and its RTSP camera
SpecSess == Init /\ [][NextSess]_vars

\* the manager used by one thread, one of its streams started
SpecMgr == Init /\ [][NextMgr]_vars

\* the manager used by two threads
InitMgrConc ==
    InitOthers /\ InitDetVars({"d1"}) /\ InitMgr(MgrCallers) /\ InitObj(TRUE)
    /\ InitDb(TRUE)
SpecMgrConc == InitMgrConc /\ [][NextRegistry]_vars

\* a run that uses either the camera stream or the live session
NextStop ==
    \/ InitSess /\ NextCam
    \/ InitCam /\ NextSess

SpecStop == Init /\ [][NextStop]_vars

\* the object detector alone, its model loaded or not
InitObjAny ==
    /\ InitOthers /\ InitDetVars({"d1"}) /\ InitMgr({"m1"})
    /\ \E loaded \in BOOLEAN : InitObj(loaded)
    /\ InitDb(TRUE)
SpecObj == InitObjAny /\ [][NextObj]_vars

\* the configuration of a live session and the inference of its frames
SpecCfg == Init /\ [][NextCfg]_vars

\* the capture threads of one stream
SpecThreads == Init /\ [][NextThreads]_vars

\* the reconnection attempts of one capture loop, with their times
SpecBackoff == Init /\ [][NextBackoff]_vars

\* the manager of events and its recorder, with or without a database session
InitEvtAny ==
    /\ InitOthers /\ InitDetVars({"d1"}) /\ InitMgr({"m1"}) /\ InitObj(TRUE)
    /\ \E db \in BOOLEAN : InitDb(db)
SpecEvt == InitEvtAny /\ [][NextEvt]_vars

\* the capture thread, the inference thread and one viewer of a live session
SpecHandoff == Init /\ [][NextHandoff]_vars

\* the start and stop routes of the live sessions, called concurrently
SpecRoutes == Init /\ [][NextRoutes]_vars

\* the cameras of one manager feeding one recorder
SpecNames == Init /\ [][NextNames]_vars

(***************************************************************************)
(* Properties of VideoRecorder.                                            *)
(***************************************************************************)
\* the recording threads that are running for camera c
ActiveJobs(c) == {t \in DOMAIN recThread : recThread[t].cam = c}

\* the start_recording calls in progress
InFlight == {k \in Callers : srPc[k] # "idle"}

\* C1: at any instant at most one recording job is active for a camera,
\* whatever the interleaving of concurrent start_recording calls.
C1_AtMostOneActiveJob ==
    \A c \in Cameras : Cardinality(ActiveJobs(c)) <= 1

C3_BufferNeverOverCapacity ==
    \A c \in DOMAIN frame_buffer : Len(frame_buffer[c]) <= MaxBufferFrames

\* C4: when no add_frame call is in progress for a camera, its buffer holds
\* the min(appended, capacity) most recently appended frames, oldest first.
C4_BufferHoldsMostRecent ==
    \A c \in Cameras :
        afPc[c] = "idle" =>
            IF appended[c] = 0
            THEN c \notin DOMAIN frame_buffer
            ELSE LET n == Min(appended[c], MaxBufferFrames)
                 IN frame_buffer[c] = [i \in 1..n |-> appended[c] - n + i]

\* more frames than the capacity were appended and the call has returned
C4_Witness ==
    \E c \in Cameras :
        /\ afPc[c] = "idle"
        /\ appended[c] > MaxBufferFrames
        /\ Len(frame_buffer[c]) = MaxBufferFrames

(***************************************************************************)
(* Properties of EventDetector.                                            *)
(***************************************************************************)
\* no process_frame call is in progress
Quiescent == \A t \in DOMAIN det : det[t].pc = "idle"

\* the events created for class cls on camera cam
EventsOf(cam, cls) ==
    {e \in 1..Len(emitted) : emitted[e].camera_name = cam /\ emitted[e].type = cls}

\* frame i gave rise to an event of class cls
Fired(i, cls) == \E e \in 1..Len(emitted) : emitted[e].frame = i /\ emitted[e].type = cls

\* frame i is the first frame of its camera with a qualifying detection of cls
FirstOfKey(i, cls) ==
    /\ cls \in frames_seen[i].classes
    /\ \A j \in 1..(i - 1) :
           ~(frames_seen[j].camera_name = frames_seen[i].camera_name
             /\ cls \in frames_seen[j].classes)

SetMax(S) == CHOOSE x \in S : \A y \in S : y <= x

\* the time of the last event of frame i's camera and class cls that an
\* earlier frame gave rise to, 0 when there is none
PrevKeyTime(i, cls) ==
    SetMax({0} \cup {emitted[e].timestamp : e \in
                       {e \in EventsOf(frames_seen[i].camera_name, cls) :
                            emitted[e].frame < i}})

\* C5: two frames of one camera, each with a qualifying detection of the same
\* class, give exactly one event when 1s apart and exactly two when 6s apart.
C5_DebounceOneOrTwo ==
    (Quiescent /\ Len(frames_seen) = 2
        /\ frames_seen[1].camera_name = frames_seen[2].camera_name)
    => \A cls \in frames_seen[1].classes \cap frames_seen[2].classes :
          LET n == Cardinality(EventsOf(frames_seen[1].camera_name, cls))
              gap == frames_seen[2].timestamp - frames_seen[1].timestamp
          IN /\ gap = 1 => n = 1
             /\ gap = 6 => n = 2

\* C6: the first qualifying detection of a (camera, class) key gives an event
\* whatever its timestamp; so the frames at t=0 and t=10 give two events.
C6_FirstDetectionFires ==
    Quiescent =>
        /\ \A i \in 1..Len(frames_seen) : \A cls \in frames_seen[i].classes :
               FirstOfKey(i, cls) => Fired(i, cls)
        /\ (/\ Len(frames_seen) = 2
            /\ frames_seen[1].camera_name = frames_seen[2].camera_name
            /\ frames_seen[1].timestamp = 0
            /\ frames_seen[2].timestamp = 10)
           => \A cls \in frames_seen[1].classes \cap frames_seen[2].classes :
                  Cardinality(EventsOf(frames_seen[1].camera_name, cls)) = 2

\* C7: whether a qualifying class of a frame gives an event is decided by the
\* history of its own (camera, class) pair alone: it fires exactly when the
\* last event of the same pair (time 0 when there is none) is at least
\* min_event_interval old, whatever was emitted for other pairs.
C7_DebouncePerPair ==
    \A i \in 1..Len(frames_seen) :
        (i < Len(frames_seen) \/ Quiescent) =>
            \A cls \in frames_seen[i].classes :
                Fired(i, cls) <=>
                    frames_seen[i].timestamp - PrevKeyTime(i, cls) >= MinEventInterval

\* two classes of one frame both fired, and so did one of them on another
\* camera less than min_event_interval later
C7_Witness ==
    /\ Quiescent
    /\ \E i, j \in 1..Len(frames_seen) :
          /\ i < j
          /\ frames_seen[i].camera_name # frames_seen[j].camera_name
          /\ frames_seen[j].timestamp - frames_seen[i].timestamp < MinEventInterval
          /\ Fired(i, "person") /\ Fired(i, "car")
          /\ Fired(j, "person")

\* C8: at most one event per (camera, class) within any min_event_interval
\* window, in every interleaving of concurrent evaluations.
C8_OneEventPerWindow ==
    \A e1, e2 \in 1..Len(emitted) :
        (/\ e1 # e2
         /\ emitted[e1].camera_name = emitted[e2].camera_name
         /\ emitted[e1].type = emitted[e2].type)
        => \/ emitted[e1].timestamp - emitted[e2].timestamp >= MinEventInterval
           \/ emitted[e2].timestamp - emitted[e1].timestamp >= MinEventInterval

(***************************************************************************)
(* Properties of CameraStream.                                             *)
(***************************************************************************)
\* C9: while the stream is running, 5 reads in a row that return no frame
\* put it in Backoff: handle released, connected False.
C9_FiveFailedReadsBackoff ==
    (running /\ consecFails >= 5)
        => (phase = "backoff" /\ cap = "closed" /\ ~connected)

\* C10: once in Backoff the stream delivers no frame and connected stays
\* False until a _connect has opened the source and read a first frame.
C10_BackoffUntilReconnected ==
    /\ [](phase = "backoff" => ~connected)
    /\ [][(phase = "backoff" /\ phase' = "backoff") => frame' = frame]_vars

\* C11: a camera whose source cannot be opened, the first attempt made by
\* start() included, is retried until stop() is called: after a failed
\* connection attempt the stream is running and its capture thread is alive to
\* make the next attempt.
C11_FailedAttemptIsRetried ==
    attempt = "failed" => (running /\ run.pc # "none")

\* C12: once stop() has returned, and until start() is called again, the
\* stream is Disconnected (running False, connected False, no open handle)
\* and no callback is invoked.
C12_StopDisconnects ==
    /\ [](stopped => (~running /\ ~connected /\ cap # "open"))
    /\ [][(stopped /\ stopped') => delivered' = delivered]_vars

(***************************************************************************)
(* Properties of stop().                                                   *)
(***************************************************************************)
\* a stop() call on the CameraStream begins
StreamStopCall == stop_not_running \/ stop_begin

\* a step of the RealtimeSession.stop call in progress (the RTSPCamera.stop
\* it makes included)
SessionStopStep == sess' # sess \/ sp'["ext"] # sp["ext"]

C14_ReleaseOnceNoRaise ==
    /\ rtsp_releases <= 1
    /\ \A c \in StopCallers : ~stopRaised[c]

(***************************************************************************)
(* Properties of CameraManager.                                            *)
(***************************************************************************)
\* the caller m begins a call of op that is about camera_id
Calls(m, op, camera_id) ==
    /\ mgr[m].pc = "idle"
    /\ mgr'[m] # mgr[m]
    /\ mgr'[m].op = op
    /\ mgr'[m].camera_id = camera_id

\* no call of the manager is in progress
MgrIdle == \A m \in DOMAIN mgr : mgr[m].pc = "idle"

\* C15: once remove_camera has returned True for a started camera, its
\* capture loop has terminated (running False, no capture thread), its handle
\* is not open, and none of its callbacks is invoked any more.
C15_RemovedStreamStopped ==
    /\ [](StreamObj \in removed => (~running /\ run.pc = "none" /\ cap # "open"))
    /\ [][(StreamObj \in removed /\ StreamObj \in removed')
            => delivered' = delivered]_vars

\* C16: remove_camera of an id that is not in the registry returns False
\* without raising and leaves the registry and every stream unchanged.
C16_RemoveAbsentReturnsFalse ==
    [][\A m \in DOMAIN mgr : \A id \in CameraIds \ DOMAIN cameras :
          Calls(m, "remove", id)
              => /\ mgr'[m].pc = "idle" /\ mgr'[m].ret = "False"
                 /\ UNCHANGED <<cameras, created, camVars>>]_vars

\* a second remove_camera of the id of the started stream has returned False
C16_Witness ==
    \E id \in CameraIds :
        /\ mgr["m1"] = [IdleCall EXCEPT !.op = "remove", !.camera_id = id,
                                         !.ret = "False"]
        /\ id \notin DOMAIN cameras
        /\ balance[id] = 0
        /\ StreamObj \in removed
        /\ running

\* C17: add_camera of an id that is in the registry returns False and
\* leaves the registry unchanged: the object registered, its running state
\* and its callbacks.
C17_AddPresentReturnsFalse ==
    [][\A m \in DOMAIN mgr : \A id \in DOMAIN cameras :
          Calls(m, "add", id)
              => /\ mgr'[m].pc = "idle" /\ mgr'[m].ret = "False"
                 /\ UNCHANGED <<cameras, created, camVars>>]_vars

\* add_camera of the id of the stream, running with a callback, has returned
\* False
C17_Witness ==
    \E id \in CameraIds :
        /\ mgr["m1"] = [IdleCall EXCEPT !.op = "add", !.camera_id = id,
                                         !.ret = "False"]
        /\ id \in IdsOf(StreamObj)
        /\ running
        /\ callbacks # <<>>

\* C18: concurrent add_camera and remove_camera calls for one id have the
\* outcome of a sequential order: when no call is in progress, the calls that
\* returned True leave an id registered exactly when one more add_camera than
\* remove_camera returned True for it (of two concurrent add_camera calls
\* exactly one returns True).
C18_AddRemoveSerialized ==
    MgrIdle => \A id \in CameraIds :
                  balance[id] = IF id \in DOMAIN cameras THEN 1 ELSE 0

(***************************************************************************)
(* Properties of the callbacks of CameraStream.                            *)
(***************************************************************************)
\* C19: an exception raised by a callback is caught for that callback: every
\* registered callback is called with the frame, whichever callbacks raise,
\* and the capture loop goes on as after a frame on which none raises (thread
\* at the head of its loop, handle kept, no error counted).
C19_CallbackIsolation ==
    [][frame' # frame
          => /\ \A cb \in Range(callbacks) : delivered'[cb] = frame'
             /\ run'.pc = "top" /\ run'.error_count = 0
             /\ cap' = cap /\ running' = running /\ connected']_vars

\* the first callback raised on frame 2 and the second was called with frame
\* 2; the second had raised on frame 1
C19_Witness ==
    /\ Len(callbacks) = 2
    /\ raised[callbacks[1]] = 2
    /\ delivered[callbacks[2]] = 2
    /\ raised[callbacks[2]] = 1

(***************************************************************************)
(* Properties of a recording job that raises.                              *)
(***************************************************************************)
\* C20: a recording job in which a step raises ends as failed, in its
\* finally block and without an exception leaving the thread, and when it
\* ends the recording flag of its camera is cleared, so that the test of
\* line 88 lets a later start_recording for that camera through.
C20_FailedJobClearsSlot ==
    /\ [](\A t \in DOMAIN recThread :
            recThread[t].status = "failed" => recThread[t].pc = "finally")
    /\ [][\A t \in DOMAIN recThread :
            (recThread[t].status = "failed" /\ t \notin DOMAIN recThread')
                => /\ recThread[t].cam \in failedCams'
                   /\ ~recording'[recThread[t].cam]]_vars

\* a job of the camera ended as failed, no job of the camera is left, and a
\* start_recording call for it would be accepted
C20_Witness ==
    \E c \in failedCams :
        /\ ActiveJobs(c) = {}
        /\ ~AlreadyRecording(c)
        /\ ~NoFrames(c)

(***************************************************************************)
(* Properties of ObjectDetector.detect.                                    *)
(***************************************************************************)
\* what the caller of detect receives: the returned list, or an exception
DetectObservation == [ret |-> detect_call.ret, raised |-> detect_call.raised]

\* what the caller receives from an inference that ran and found no objects
EmptyInference == [ret |-> <<>>, raised |-> FALSE]

\* the call ended at line 125 for want of a model, or in the except branch
DetectorUnavailable ==
    \/ detect_call.path = "except"
    \/ detect_call.path = "guard" /\ model = "none"

\* C21: when the model is missing or the inference raises, what detect gives
\* its caller differs from what a successful inference that found no objects
\* gives it.
C21_UnavailableIsDistinguishable ==
    DetectorUnavailable => DetectObservation # EmptyInference

\* an inference ran without error on an image and found no objects
C21_EmptyInferenceHappens ==
    /\ detect_call.path = "ok"
    /\ DetectObservation = EmptyInference

(***************************************************************************)
(* Properties of RealtimeSession.set_config.                               *)
(***************************************************************************)
\* a frame's inference ends in this step without the model having raised
InferenceEnds == inf.pc = "model" /\ inf'.pc = "idle"

\* C22: set_config acts on the frames whose inference starts after it only.
\* A frame whose inference began while no set_config call was in progress is
\* inferred with the class filter and the confidence that were in force when
\* it began, both together: the boxes drawn on it are those of the scene that
\* reach that confidence and, when a filter is set, are of its classes.  A
\* step of set_config leaves the frame that is already published as it is.
C22_ConfigForLaterFramesOnly ==
    [][/\ (InferenceEnds /\ inf.quiet)
             => annotated' = PredictKeepIdx(inf.scene, inf.begin_classes,
                                            inf.begin_conf)
       /\ setc' # setc => annotated' = annotated]_vars

\* the race alone: the configuration used by an inference that began while no
\* set_config call was in progress is the one in force when it began
C22_UsedConfigIsBeginConfig ==
    [][(InferenceEnds /\ inf.quiet)
          => inf.classes = inf.begin_classes /\ inf.conf = inf.begin_conf]_vars

(***************************************************************************)
(* Properties of the start operations.                                     *)
(***************************************************************************)
\* C23: a capture source that cannot be opened never makes start() of the
\* RTSP camera or of the session end with an exception; the failure shows
\* only in the state.
C23_StartNeverRaises == ~start_raised

(***************************************************************************)
(* Properties of the delivery of frames by a CameraStream.                 *)
(***************************************************************************)
\* C24: across start(), stop() and reconnects, the frames a subscriber is
\* called with arrive in capture order: no frame is delivered after a frame
\* that was read later.
C24_DeliveryInCaptureOrder ==
    \A i, j \in 1..Len(received) : i < j => received[i] < received[j]

(***************************************************************************)
(* Properties of the exception path of the capture loop.                   *)
(***************************************************************************)
\* C25: while the stream is running, 3 reads in a row that raise put it in
\* Backoff: handle released, connected False.
C25_ThreeExceptionsBackoff ==
    (running /\ consecRaises >= 3)
        => (phase = "backoff" /\ cap # "open" /\ ~connected)

(***************************************************************************)
(* Properties of the timing of the reconnection attempts.                  *)
(***************************************************************************)
\* C26: an attempt of the loop is made no sooner than reconnect_interval
\* after its previous attempt, and once max_reconnect_attempts attempts have
\* failed in a row every further attempt comes no sooner than twice the
\* interval after the previous one, until an attempt succeeds.
C26_BackoffInterval ==
    made >= 2
        => /\ lastmade.gap >= ReconnectInterval
           /\ lastmade.failed_row >= MaxReconnectAttempts
                  => lastmade.gap >= 2 * ReconnectInterval

\* the first part alone: attempts are at least reconnect_interval apart
C26_AtLeastBaseInterval ==
    made >= 2 => lastmade.gap >= ReconnectInterval

(***************************************************************************)
(* Properties of the fan-out of frames to the callbacks.                   *)
(***************************************************************************)
\* C27: for every frame the capture loop reads, each registered callback is
\* called exactly once, in registration order, with an array that holds the
\* frame as it was read, whatever the callbacks called before it wrote into
\* theirs, and the stream's current frame is the frame as it was read.
C27_EachCallbackOnceWithOwnCopy ==
    [][frame' # frame
          => /\ frame' = frame + 1
             /\ Len(handed') = Len(callbacks)
             /\ \A i \in 1..Len(callbacks) :
                    /\ handed'[i].cb = callbacks[i]
                    /\ handed'[i].content = frame + 1]_vars

\* the second frame was read with two callbacks registered, and each was
\* called with the frame as read, in registration order
C27_Witness ==
    /\ frame = 2
    /\ Len(callbacks) = 2
    /\ Len(handed) = 2
    /\ handed[1] = [cb |-> callbacks[1], content |-> 2]
    /\ handed[2] = [cb |-> callbacks[2], content |-> 2]

(***************************************************************************)
(* Properties of the events of one frame.                                  *)
(***************************************************************************)
\* the detections of class cls that ObjectDetector.detect returned for the
\* frame of event e
DetectionsOfEvent(e, cls) ==
    ClassDetections(frames_seen[e.frame].detections, cls)

\* C28: for each frame at most one event is emitted per class; an event is
\* emitted only for a class of interest that has, in the frame, a detection
\* with confidence >= min_confidence; and the event carries the confidence
\* and the bounding box of a detection of its class in the frame than which
\* no detection of that class in the frame has a higher confidence.
C28_OneEventPerClassBestDetection ==
    /\ \A i, j \in 1..Len(emitted) :
           (emitted[i].frame = emitted[j].frame /\ emitted[i].type = emitted[j].type)
               => i = j
    /\ \A i \in 1..Len(emitted) :
           LET e == emitted[i]
               ds == DetectionsOfEvent(e, e.type)
           IN /\ e.type \in ClassesOfInterest
              /\ \E k \in 1..Len(ds) : ds[k].confidence >= MinConfidence
              /\ \E k \in 1..Len(ds) :
                     /\ ds[k].confidence = e.confidence
                     /\ ds[k].bbox = e.bbox
              /\ \A k \in 1..Len(ds) : ds[k].confidence <= e.confidence

\* a frame with two person detections, the second one the more confident,
\* and a car detection gave a person event with the second detection's
\* confidence and box, and a car event
C28_Witness ==
    \E i, j \in 1..Len(emitted) :
        /\ emitted[i].frame = emitted[j].frame
        /\ Len(DetectionsOfEvent(emitted[i], "person")) = 2
        /\ emitted[i].type = "person"
        /\ emitted[i].confidence = 90 /\ emitted[i].bbox = 3
        /\ emitted[j].type = "car"

(***************************************************************************)
(* C29: a recording job first writes the snapshot of the ring buffer in    *)
(* buffer order and then, during the post-event window, appends to the     *)
(* same clip every frame that add_frame delivers for the camera, each      *)
(* exactly once and in arrival order.  As a property of the job's steps:   *)
(* the snapshot step puts the buffer, in its order, into the clip, and a   *)
(* poll of the post-event loop that finds a newest frame the clip does not *)
(* hold yet leaves the job in the loop with that frame appended to the     *)
(* clip, whose frames stay in arrival order without repetition.            *)
(***************************************************************************)
Delivered(t) == frame_buffer[recThread[t].cam]

InArrivalOrder(clip) ==
    \A i, j \in 1..Len(clip) : i < j => clip[i] < clip[j]

C29_SnapshotThenDeliveredFrames ==
    [][\A t \in ThreadIds :
          /\ (record_event_snapshot(t) /\ Delivered(t) # <<>>)
                => recThread'[t].clip = Delivered(t)
          /\ (/\ record_event_post(t)
              /\ recThread[t].cam \in DOMAIN frame_buffer
              /\ Delivered(t) # <<>>
              /\ Delivered(t)[Len(Delivered(t))] \notin Range(recThread[t].clip))
                => /\ t \in DOMAIN recThread'
                   /\ recThread'[t].pc = "post"
                   /\ recThread'[t].clip =
                         Append(recThread[t].clip,
                                Delivered(t)[Len(Delivered(t))])
                   /\ InArrivalOrder(recThread'[t].clip)]_vars

(***************************************************************************)
(* C30: every accepted trigger runs its job to an end: the job stays in    *)
(* the post-event loop while frames keep arriving, leaves it only to close *)
(* the clip and write the thumbnail and the metadata, and clears the       *)
(* camera's active-job slot when it ends, so that a later trigger starts a *)
(* new recording.  As a property of the job's steps: no poll of the        *)
(* post-event loop ends the job, and the step in which a job ends leaves   *)
(* the camera's slot cleared.                                              *)
(***************************************************************************)
C30_JobRunsToItsEnd ==
    [][\A t \in ThreadIds :
          /\ record_event_post(t)
                => /\ t \in DOMAIN recThread'
                   /\ recThread'[t].pc = "post"
                   /\ recThread'[t].status # "failed"
          /\ (t \in DOMAIN recThread /\ t \notin DOMAIN recThread')
                => ~recording'[recThread[t].cam]]_vars

(***************************************************************************)
(* Properties of EventManager.                                             *)
(***************************************************************************)
\* C31: an event record is persisted exactly once per finalized recording,
\* after the clip has been closed, and it carries that recording's clip and
\* thumbnail paths; a trigger that was dropped because a recording was
\* active persists no record.  Every committed row belongs to a recording
\* job its trigger started, that job has ended when the row is committed,
\* the row holds the job's two paths, and no two rows belong to one job.
C31_RecordPerFinalizedRecording ==
    /\ \A i \in 1..Len(saved) :
          /\ saved[i].job # 0
          /\ ~saved[i].running
          /\ saved[i].video_path # NoPath
          /\ saved[i].image_path # NoPath
    /\ \A i, j \in 1..Len(saved) : i # j => saved[i].job # saved[j].job

\* a trigger dropped because a recording was active has a row committed
C31_DroppedTriggerPersisted ==
    \E i \in 1..Len(saved) : saved[i].job = 0 /\ dropped > 0

(***************************************************************************)
(* C32: a stop request destroys the live session: its capture loop and its *)
(* inference loop terminate, and once RealtimeSession.stop() has returned  *)
(* no thread of the session publishes a frame (last_jpeg stays empty) or   *)
(* touches the released capture handle.  As an invariant: when a stop()    *)
(* call has returned and the session was not started again, last_jpeg is   *)
(* empty, the inference thread holds no frame it is about to publish, and  *)
(* the capture thread is not about to call grab or retrieve.               *)
(***************************************************************************)
SessionStopped == sessStops > 0 /\ sess = "idle" /\ ~active

C32_StoppedSessionIsQuiet ==
    SessionStopped =>
        /\ last_jpeg = 0
        /\ infer_thread # "infer"
        /\ loop \notin {"grab", "retrieve"}

(***************************************************************************)
(* Properties of the hand-off cells of a live session.                     *)
(***************************************************************************)
\* C33: the hand-off cells are single-slot with overwrite semantics: the
\* capture queue never holds more than one frame, and the capture loop
\* never blocks on it (when it puts, the queue is empty); a consumer never
\* receives a frame older than one it already received; a viewer reading
\* last_jpeg gets the most recently published frame, and holds the lock
\* only while it copies the reference, never while it sends.
C33_SingleSlotOverwrite ==
    /\ Len(hq) <= 1
    /\ hloop.pc = "put" => hq = <<>>
    /\ InArrivalOrder(hreceived)
    /\ viewer.pc = "send" => viewer.data = viewer.latest
    /\ frame_lock = "viewer" <=> viewer.pc = "copy"

\* the consumer missed a frame that was overwritten in the queue, and the
\* viewer holds a published frame while the inference thread works on
C33_Witness ==
    /\ \E i \in 1..Len(hreceived) - 1 : hreceived[i + 1] > hreceived[i] + 1
    /\ viewer.pc = "send" /\ viewer.data.frame > 0
    /\ hinfer.pc = "infer"

\* C34: if the detector raises during an iteration of a live session, the
\* inference loop does not stop: the captured frame is still encoded and
\* published to last_jpeg without detections, and the loop continues with
\* the following frames.  The inference thread is always in its loop, and a
\* frame on which the detector raised is on its way to last_jpeg as
\* captured, or was stored there as captured, or could not be encoded.
C34_DetectorFailureDegrades ==
    /\ hinfer.pc # "none"
    /\ \A f \in detector_raised :
          \/ /\ hinfer.frame = f
             /\ hinfer.pc \in {"encode", "lock", "store"}
             /\ hinfer.out = "plain"
          \/ turn_end[f] \in {"plain", "unencoded"}

\* the detector raised on a frame, that frame was published as captured, and
\* a later frame was published with its detections
C34_Witness ==
    \E f \in detector_raised :
        /\ turn_end[f] = "plain"
        /\ hjpeg.frame > f
        /\ hjpeg.out = "annotated"

\* C35: when YoloDetector.predict is given a non-empty class filter, every
\* detection in the result it returns belongs to one of the named classes;
\* in particular, when no detection matches the filter the result contains
\* no detections.  Stated of the result of the last predict call of the
\* inference thread and of the classes that call was given.
C35_ResultWithinClassFilter ==
    (inf.pc = "idle" /\ inf.classes # {}) =>
        \A i \in 1..Len(annotated) : annotated[i].class_name \in inf.classes

(***************************************************************************)
(* Properties of the session routes.                                       *)
(***************************************************************************)
\* the session objects stored in the registry
RegisteredSessions ==
    {realtime_sessions[key] : key \in DOMAIN realtime_sessions}

\* C36: if starting a live session fails because the capture source cannot
\* be opened, the session registry and the session's active flag are left
\* as before the request: no session is registered under that key, so a
\* later start request for the same key is not answered "already_running".
\* The session object of a start request that ended with the exception is
\* not in the registry and its active flag is not set.
C36_FailedStartLeavesNothing ==
    \A r \in RequestThreads :
        answer[r].status = "raised" =>
            /\ answer[r].sess \notin RegisteredSessions
            /\ ~objs[answer[r].sess].active

\* a start request is answered "already_running" although the only session
\* built for the key never ran
C36_AlreadyRunningAfterFailure ==
    /\ \E r \in RequestThreads : answer[r].status = "already_running"
    /\ \A i \in 1..Len(objs) : objs[i].threads = "none"
    /\ \A r \in RequestThreads : answer[r].route # "stop" /\ rq[r].pc = "idle"

\* the session objects of a key whose threads run
RunningSessions(key) ==
    {i \in 1..Len(objs) : objs[i].key = key /\ objs[i].threads = "running"}

\* C40: in every interleaving of concurrent start requests for the same
\* session key, at most one RealtimeSession is created and started for
\* that key, and every running session is reachable through the registry
\* so that a stop request can stop it (or is held by the stop request that
\* has just removed it).
C40_OneReachableSessionPerKey ==
    \A key \in SessionKeys :
        /\ Cardinality(RunningSessions(key)) <= 1
        /\ \A i \in RunningSessions(key) :
              \/ key \in DOMAIN realtime_sessions /\ realtime_sessions[key] = i
              \/ \E r \in RequestThreads : rq[r].pc = "stop_stop" /\ rq[r].sess = i

\* two start requests and no stop request: two sessions run for one key
C40_TwoSessionsFromTwoStarts ==
    \E key \in SessionKeys :
        /\ Cardinality(RunningSessions(key)) = 2
        /\ \A r \in RequestThreads : answer[r].status = "started"

(***************************************************************************)
(* Properties of the capture threads of a CameraStream.                    *)
(***************************************************************************)
\* the capture threads that are past their waits: testing the flag, reading
\* or delivering a frame
Capturing == {t \in CaptureThreads : thr[t].pc \in {"top", "read", "deliver"}}

\* C37: for any sequence of start() and stop() calls on one CameraStream,
\* at most one capture-loop thread of the stream is alive and executing its
\* loop body at any time; a capture loop that stop() gave up waiting for
\* never resumes capturing after a later start(): only the thread created
\* by the last start() reads or delivers frames.
C37_OneCaptureLoop ==
    /\ Cardinality(Capturing) <= 1
    /\ \A t \in CaptureThreads :
          thr[t].pc \in {"read", "deliver"} => t = thr_thread

(***************************************************************************)
(* Properties of the failure count of the capture loop.                    *)
(***************************************************************************)
\* C38: while a CameraStream is running, if from some point on every frame
\* read fails, then however long each read takes the capture loop
\* eventually releases the handle and attempts a reconnect; the failure
\* count that triggers reconnection is reset only by a successful read or a
\* successful reconnect.  As a property of the steps of the capture thread:
\* error_count gets smaller only in a step that reads a frame or in which a
\* reconnection attempt opens the source.
C38_CountResetOnlyBySuccess ==
    [][(run'.error_count < run.error_count /\ run'.pc # "none")
          => \/ frame' # frame
             \/ run.pc = "connect" /\ cap' = "open"]_vars

\* every read fails and takes longer than the period of the log: the count
\* is back at 1 after each of them and the handle stays open
C38_FailuresNeverAddUp ==
    /\ running /\ cap = "open"
    /\ consecFails = MaxConsecFails
    /\ run.error_count = 1

(***************************************************************************)
(* Properties of the recorder state of several cameras.                    *)
(***************************************************************************)
\* C39: two cameras registered under distinct ids never share recorder
\* state: frames of one camera are never appended to the other's ring
\* buffer, and an active recording for one never causes a trigger for the
\* other to be dropped.  No buffer holds frames of two cameras, and a
\* trigger is dropped only for a recording that a trigger of the same
\* camera started.
C39_NoSharedRecorderState ==
    /\ \A key \in DOMAIN name_buffer :
          Cardinality(Range(name_buffer[key])) <= 1
    /\ last_trigger.result = "dropped"
          => last_trigger.job_of = last_trigger.camera_id

====
